---- MODULE Spec2Model ----
(***************************************************************************)
(* Transitive feature discovery: the recursive breadth-first join-path     *)
(* search of BfsAugmentation (src/augmentation/bfs_pipeline.py) with its   *)
(* quality gate, its feature-selection cascade and its path ranking.       *)
(*                                                                         *)
(* The schema graph, the join relations and the tables are the answers of  *)
(* external collaborators (graph store, storage, information-theoretic     *)
(* measures).  Each answer is drawn from a small set at the place where    *)
(* the code asks for it; the adjacency of a node is remembered in adj, so  *)
(* that the graph is one fixed finite graph, cycles included.              *)
(***************************************************************************)
EXTENDS Integers, Sequences, FiniteSets, TLC

\* ------------------------------------------------------------------ bounds
NumNodes == 4      \* nodes of the schema graph
Related == 3       \* nodes that have relations in the graphs of Spec
MaxRel == 1        \* relations the join resolver returns for one pair of nodes
NumFeat == 1       \* feature columns of one table
Rows == 2          \* rows of the base table (a left join keeps them)
MoreRel == 2       \* relations for one pair of nodes in the graphs of SampleSpec
Pair == 2          \* nodes that have relations in the graphs of SampleSpec
RightRows == 3     \* rows of a neighbour's table
MoreFeat == 2      \* feature columns of one table in the graphs of SampleSpec
Repeats == 2       \* rankings select_features counts over (its parameter k)
MaxDim == 2        \* columns of the data matrix wrapper_algo gets
MaxScore == 1      \* largest feature importance score
MaxAccuracy == 2   \* largest accuracy of the estimator

\* ------------------------------------------------------------ input domains
Nodes == 1..NumNodes

\* The node the traversal is started with: queue = {base node}.
BaseNode == 1

\* get_node_by_id(id).get("label"): the labels of the tables, as strings of
\* characters.  The label of node 2 is a substring of the label of node 3.
LabelTable ==
  << <<"a">>, <<"b">>, <<"b", "c">>, <<"d">>, <<"e">>, <<"f">> >>

Label(n) == LabelTable[n]

\* A node id is the path of the table's file; no label and no join name equals it.
IdName(n) == <<"/">> \o Label(n)

\* The number of feature columns the stored tables have.
VARIABLE feat_limit

\* Names of the join columns.
ColumnTable == << <<"x">>, <<"y">>, <<"z">>, <<"w">> >>

Column(k) == ColumnTable[k]

\* The target column and the feature columns of a table (prefixed by its label,
\* hence different from table to table).
Target == <<0, 0>>

Features(n) == {<<n, i>> : i \in 1..feat_limit}

Columns(n) == Features(n) \cup (IF n = BaseNode THEN {Target} ELSE {})

\* value_ratio, the pruning threshold, as a fraction num/den.
Ratios == {<<0, 1>>, <<1, 2>>, <<1, 1>>}

\* ----------------------------------------------------------------- helpers
Range(s) == {s[i] : i \in DOMAIN s}

EmptyMap == [x \in {} |-> x]

\* d[k] = v of a Python dict: a new key is added, an existing one overwritten.
Put(d, k, v) == [x \in DOMAIN d \cup {k} |-> IF x = k THEN v ELSE d[x]]

\* Python's `sub in s` on strings: s has sub as a contiguous substring.
Contains(sub, s) ==
  \E i \in 0..(Len(s) - Len(sub)) : SubSeq(s, i + 1, i + Len(sub)) = sub

\* The lists without repetition over a set of features.
ListsOver(S) ==
  UNION {{s \in [1..m -> S] : \A i, j \in 1..m : i # j => s[i] # s[j]} :
           m \in 0..Cardinality(S)}

\* "No value": None, or a local not yet assigned.
NoName == << >>

NoNode == 0

\* A dataframe: the tables joined into it, the join whose result it is, its
\* number of rows; a join result also has the number of non-null values of its
\* right join column.
NoDf == [tables |-> {}, data_of |-> NoName, rows |-> 0, content |-> {}]

NoJoinedDf ==
  [tables |-> {}, data_of |-> NoName, rows |-> 0, count |-> 0,
   join_columns |-> {}]

NoProp ==
  [join_prop |-> [from_label |-> NoName, from_column |-> NoName,
                  to_column |-> NoName, weight |-> 0],
   from_table |-> NoName, to_table |-> NoName]

NoSet == {}

\* No traversal has returned yet.
NoResult == {NoName}

\* ---------------------------------------------------- external collaborators
\* get_relation_properties_node_name(from_id, to_id): a list of at most MaxRel
\* relations (join_prop, from_table, to_table); the k-th joins on column k, is
\* stored in either direction and has a weight below 1 or of 1.
RelationsOn(b, n, k) ==
  {[join_prop |-> [from_label |-> fl, from_column |-> Column(k),
                   to_column |-> Column(k), weight |-> w],
    from_table |-> Label(b), to_table |-> Label(n)] :
     fl \in {Label(b), Label(n)}, w \in {0, 1}}

JoinKeyLists(b, n, limit) ==
  UNION {{s \in [1..m -> UNION {RelationsOn(b, n, k) : k \in 1..limit}] :
            \A k \in 1..m : s[k] \in RelationsOn(b, n, k)} : m \in 0..limit}

\* The rows of a table as read from storage, by their position: the base
\* table has Rows rows, any other table RightRows.
RowsOf(n) == 1..(IF n = BaseNode THEN Rows ELSE RightRows)

\* A null value of a column.
Null == 0

\* The value row i of a neighbour's table has in the k-th join column.  In an
\* odd column the first two rows share a value and the third is null; in an
\* even column the values 1 and 2 alternate.
Value(i, k) ==
  IF k % 2 = 0 THEN ((i - 1) % 2) + 1
  ELSE IF i = 3 THEN Null ELSE IF i <= 2 THEN 1 ELSE i

\* The position of a join column among the columns.
ColumnIndex(name) == CHOOSE k \in 1..Len(ColumnTable) : ColumnTable[k] = name

\* get_df_with_prefix(node): the table of a node as read from storage.
TableOf(n) ==
  [tables |-> {n}, data_of |-> Label(n), rows |-> Cardinality(RowsOf(n)),
   content |-> RowsOf(n)]

\* random_state of the sampling
Seed == 42

\* sample(n=1, random_state=seed) on one group: the row drawn is a function of
\* the group and the seed.
Draw(group, seed) ==
  CHOOSE r \in group :
    Cardinality({q \in group : q < r}) = seed % Cardinality(group)

\* groupby(column).sample(n=1, random_state=seed): the rows are grouped by
\* their value of the column, rows with a null value are in no group, and one
\* row is drawn from each group.
GroupSample(content, k, seed) ==
  {Draw({r \in content : Value(r, k) = v}, seed) :
     v \in {Value(r, k) : r \in content} \ {Null}}

\* compute_partial_join_filename(prop, partial_join_name): the parent's name
\* followed by the signature of the relation (table labels and column names).
compute_partial_join_filename(prop, partial_join_name) ==
  partial_join_name \o <<"-", "-">> \o prop.from_table \o <<".">>
    \o prop.join_prop.from_column \o <<"-">> \o prop.to_table \o <<".">>
    \o prop.join_prop.to_column

\* ------------------------------------------------------------------- state
VARIABLES
  \* BfsAugmentation's fields
  value_ratio, ranked_paths, join_name_mapping, discovered,
  partial_join_selected_features,
  \* parameters and locals of the running call of bfs_traverse_join_pipeline
  queue, previous_queue, initial_queue, base_node_id, neighbours, todo, node,
  join_keys, right_df, current_queue, partial_join_name, partial_join, idx,
  joined_df, join_name, join_filename, sampled_right_df,
  \* locals of step_feature_selection
  current_selected_features, relevant_features, non_cond_red_feat,
  joint_rel_feat, selected_features,
  \* control: the place in the running call, and the suspended callers
  pc, stack,
  \* the world outside: the schema graph as far as it was asked for, the files
  \* written by join_and_save, the relevant features of the base table, the
  \* number of relations the graph store holds for a pair of nodes at most
  adj, disk, base_relevant, rel_limit,
  \* history of the traversal (read by the properties only): how often a node
  \* was expanded and was a neighbour; the join sequence and the ancestor path
  \* of each accepted path;
  \* the paths whose data pass the gate and the cascade; the state the running
  \* join attempt started in; and one join attempt of the run, chosen freely
  \* when it starts and remembered from then on (a property of every single
  \* join attempt is a property of the watched one); the frontier the running
  \* neighbour's iteration started with
  expansions, visits, steps_of, parent_of, passed, attempt, watched, offered,
  \* trial_error.py: the join tree the caller passes (tree: the children of
  \* each node); the parameters and locals of the running call of
  \* bfs_traverse_join_pipeline or dfs_traverse_join_pipeline that
  \* BfsAugmentation has no namesake of (join_tree: the node whose children
  \* are the keys of the dict passed); the value returned to the caller of
  \* dfs_traverse_join_pipeline
  tree, join_tree, current_node_id, left_df, previous_paths, all_paths,
  next_paths, current_paths, current_join_path, result,
  \* two traversals of the same graph and data, one after the other: whether
  \* the relations and the data are the fixed ones (the same whenever they are
  \* asked for), and the path names the first traversal ranked
  data_fixed, first_result,
  \* select_arda_features_budget_join (src/arda/arda.py): its locals, and how
  \* often each node was popped so far and in the running pass of the outer
  \* loop
  nodes, feature_count, budget_size, left_table, all_columns,
  final_selected_features, pops, pass_pops,
  \* wrapper_algo, select_features and _bin_count_ranking (src/arda/arda.py):
  \* parameters and locals, and the thresholds tried so far with their
  \* selection and accuracy
  T, position, last_accuracy, last_indices, indices, dim, tau, counts, round,
  feature_importance_scores, ranking, bins, tried

fields == <<value_ratio, ranked_paths, join_name_mapping, discovered,
            partial_join_selected_features>>

frame == <<queue, previous_queue, initial_queue, base_node_id, neighbours, todo,
           node, join_keys, right_df, current_queue, partial_join_name,
           partial_join, idx>>

join_locals == <<joined_df, join_name, join_filename, sampled_right_df>>

cascade_locals == <<current_selected_features, relevant_features,
                    non_cond_red_feat, joint_rel_feat, selected_features>>

world == <<adj, disk, base_relevant, rel_limit, feat_limit>>

history == <<expansions, visits, steps_of, parent_of, passed, attempt,
             watched, offered>>

trial == <<tree, join_tree, current_node_id, left_df, previous_paths, all_paths,
           next_paths, current_paths, current_join_path, result>>

compare == <<data_fixed, first_result>>

budget_join == <<nodes, feature_count, budget_size, left_table, all_columns,
                 final_selected_features, pops, pass_pops>>

wrapper == <<T, position, last_accuracy, last_indices, indices, dim, tau,
             counts, round, feature_importance_scores, ranking, bins, tried>>

arda == <<budget_join, wrapper>>

vars ==
  <<fields, frame, join_locals, cascade_locals, pc, stack, world, history,
    trial, compare, arda>>

\* -------------------------------------------------- the code, as operators
\* Line 67 with the filter turned round: the adjacent nodes visited before.
VisitedNeighbours(adjacent, disc) == adjacent \cap disc

\* Line 67 without its filter: every adjacent node is a neighbour.
AllAdjacent(adjacent, disc) == adjacent

\* line 67: neighbours = set(get_adjacent_nodes(base_node_id)) - set(self.discovered)
UnvisitedNeighbours(adjacent, disc) == adjacent \ disc

\* get_adjacent_nodes(b): the nodes related to b.  A relation is found from
\* either of its ends (line 105 meets relations stored in the other direction),
\* so b is adjacent to the nodes that answered with b before, and to any of the
\* nodes not asked yet; the answer is the same whenever b is asked again.
AdjacentChoices(b) ==
  IF b \in DOMAIN adj THEN {adj[b]}
  ELSE {{a \in DOMAIN adj : b \in adj[a]} \cup S :
          S \in SUBSET (Nodes \ (DOMAIN adj \cup {b}))}

\* line 98: if base_node_label not in partial_join_name
BaseNotInPartial(base_node_label, name) == ~Contains(base_node_label, name)

\* line 105: a relation stored in the other direction with a weight below 1 is skipped
SkipRelation(prop) ==
  prop.join_prop.from_label # prop.from_table /\ prop.join_prop.weight < 1

\* A name that forgets the partial join and starts at the relation's table.
NameOfRelation(prop, name) == compute_partial_join_filename(prop, prop.from_table)

\* line 148: the name of the join
StepJoinName(prop, name) == compute_partial_join_filename(prop, name)

\* A file name without the counter: join_BFS_<value_ratio>_1.csv for every join.
OneFilename(mapping) == 1

\* line 152: join_BFS_<value_ratio>_<len(join_name_mapping) + 1>.csv, by its number
StepJoinFilename(mapping) == Cardinality(DOMAIN mapping) + 1

\* join_and_save: the left join of the partial join with the sampled right table.
\* It needs the left column from_table.from_column among the columns of left_df.
LeftColumnMissing(left, b) == b \notin left.tables

JoinedDf(left, n, name, c, keys) ==
  [tables |-> left.tables \cup {n}, data_of |-> name, rows |-> left.rows,
   count |-> c, join_columns |-> keys]

\* line 158: right_column = <to_table>.<to_column>
RightColumn(prop) == prop.to_table \o <<".">> \o prop.join_prop.to_column

\* The file join_and_save writes, as pd.read_csv gives it back.
StoredDf(df) == [tables |-> df.tables, data_of |-> df.data_of, rows |-> df.rows]

\* A gate that also rejects a ratio equal to the threshold.
AtOrBelowRatio(df, ratio) == df.count * ratio[2] <= ratio[1] * df.rows

\* lines 164-172: count() / shape[0] < value_ratio rejects; fractions are compared
\* by cross-multiplication.
BelowRatio(df, ratio) == df.count * ratio[2] < ratio[1] * df.rows

\* A gate on the share of null values instead of non-null values.
NullShareQuality(df, ratio) ==
  ~((df.rows - df.count) * ratio[2] < ratio[1] * df.rows)

step_data_quality(df, ratio) == ~BelowRatio(df, ratio)

\* Stage 1 without its early return.
Stage1Continues(rel) == FALSE

\* lines 188-190: no relevant feature, the join is skipped
Stage1Rejects(rel) == rel = {}

\* lines 208-215: the candidate set handed to stage 4, or None
CombineRejects(ncr, jr) == ncr = {} /\ jr = {}

\* The union of the two stages instead of their intersection.
UniteStages(ncr, jr) == IF ncr = {} THEN jr ELSE ncr \cup jr

CombineStages(ncr, jr) == IF ncr = {} THEN jr ELSE ncr \cap jr

\* The new features alone, without the ancestor's.
OnlyNewFeatures(non_red_feat, ancestor) == non_red_feat

\* lines 227-228: non_red_feat.copy(), extended by the ancestor's list
ExtendSelected(non_red_feat, ancestor) == non_red_feat \o ancestor

\* The repopulation without line 136: the old paths are not put back.
RepopulateNewPaths(pq, iq, cq) == pq \cup cq

\* lines 136-137: previous_queue.update(initial_queue); .update(current_queue)
Repopulate(pq, iq, cq) == (pq \cup iq) \cup cq

\* The whole frontier, old paths included.
WholeFrontier(pq, iq) == pq

\* line 141: previous_queue - initial_queue
DeeperFrontier(pq, iq) == pq \ iq

\* lines 234-236: the columns the path is ranked on
RankColumns(features) == Append(features, Target)

\* ------------------------------------------------------------- the start
NoAttempt ==
  [previous_queue |-> {}, current_queue |-> {}, initial_queue |-> {},
   join_name_mapping |-> EmptyMap, ranked_paths |-> EmptyMap,
   partial_join_selected_features |-> EmptyMap, steps |-> << >>]

\* No function of src/arda/arda.py is running.
NoArda ==
  /\ nodes = << >>
  /\ feature_count = 0
  /\ budget_size = 0
  /\ left_table = {}
  /\ all_columns = {}
  /\ final_selected_features = << >>
  /\ pops = [n \in Nodes |-> 0]
  /\ pass_pops = 0
  /\ T = << >>
  /\ position = 0
  /\ last_accuracy = 0
  /\ last_indices = {}
  /\ indices = {}
  /\ dim = 0
  /\ tau = 0
  /\ counts = << >>
  /\ round = 0
  /\ feature_importance_scores = << >>
  /\ ranking = << >>
  /\ bins = << >>
  /\ tried = << >>

\* __init__ (lines 24-34), then bfs_traverse_join_pipeline(queue = {base node}):
\* lines 46-54 give previous_queue = queue.copy() and initial_queue.  The
\* threshold, the base table's relevant features and the graph are drawn by
\* Init and InitWide.
Start ==
  /\ ranked_paths = EmptyMap
  /\ join_name_mapping = EmptyMap
  /\ discovered = {}
  /\ partial_join_selected_features = EmptyMap
  /\ queue = {BaseNode}
  /\ previous_queue = {IdName(BaseNode)}
  /\ initial_queue = {IdName(BaseNode)}
  /\ base_node_id = NoNode
  /\ neighbours = {}
  /\ todo = {}
  /\ node = NoNode
  /\ join_keys = << >>
  /\ right_df = NoDf
  /\ current_queue = {}
  /\ partial_join_name = NoName
  /\ partial_join = NoDf
  /\ idx = 0
  /\ joined_df = NoJoinedDf
  /\ join_name = NoName
  /\ join_filename = 0
  /\ sampled_right_df = NoDf
  /\ current_selected_features = << >>
  /\ relevant_features = NoSet
  /\ non_cond_red_feat = NoSet
  /\ joint_rel_feat = NoSet
  /\ selected_features = NoSet
  /\ pc = "while_queue"
  /\ stack = << >>
  /\ disk = EmptyMap
  /\ expansions = [n \in Nodes |-> 0]
  /\ offered = {}
  /\ visits = [n \in Nodes |-> 0]
  /\ steps_of = Put(EmptyMap, Label(BaseNode), << >>)
  /\ parent_of = EmptyMap
  /\ passed = {}
  /\ attempt = NoAttempt
  /\ watched = {}
  /\ tree = [n \in Nodes |-> {}]
  /\ join_tree = NoNode
  /\ current_node_id = NoNode
  /\ left_df = NoDf
  /\ previous_paths = {}
  /\ all_paths = {}
  /\ next_paths = {}
  /\ current_paths = {}
  /\ current_join_path = NoName
  /\ result = {}
  /\ NoArda

\* Locals that are dead at a place are set back to "no value".
\* Any threshold and any base table; the schema graph is any graph in which
\* only the first Related nodes have relations (the others are isolated).
Init ==
  /\ Start
  /\ value_ratio \in Ratios
  /\ feat_limit = NumFeat
  /\ base_relevant \in ListsOver(Features(BaseNode))
  /\ adj = [n \in Nodes \ (1..Related) |-> {}]
  /\ rel_limit = MaxRel
  /\ data_fixed = FALSE
  /\ first_result = NoResult

\* The threshold 1/2 and a base table without relevant features; the schema
\* graph is any graph over all the nodes.
InitWide ==
  /\ Start
  /\ value_ratio = <<1, 2>>
  /\ base_relevant = << >>
  /\ adj = EmptyMap
  /\ rel_limit = MaxRel
  /\ feat_limit = NumFeat
  /\ data_fixed = FALSE
  /\ first_result = NoResult

\* Any threshold and a base table with no or one relevant feature; the schema
\* graph is any graph in which only the first Pair nodes have relations, a pair
\* of nodes has up to MoreRel relations and a table MoreFeat feature columns.
InitSample ==
  /\ Start
  /\ value_ratio \in Ratios
  /\ base_relevant \in {<< >>, <<<<BaseNode, 1>>>>}
  /\ adj = [n \in Nodes \ (1..Pair) |-> {}]
  /\ rel_limit = MoreRel
  /\ feat_limit = MoreFeat
  /\ data_fixed = FALSE
  /\ first_result = NoResult

\* The threshold 1/2 and a base table without relevant features; the schema
\* graph is any graph in which only the first Related nodes have relations; the
\* relations and the data are the fixed ones.
InitOrder ==
  /\ Start
  /\ value_ratio = <<1, 2>>
  /\ base_relevant = << >>
  /\ adj = [n \in Nodes \ (1..Related) |-> {}]
  /\ rel_limit = MaxRel
  /\ feat_limit = NumFeat
  /\ data_fixed = TRUE
  /\ first_result = NoResult

ClearJoin ==
  /\ joined_df' = NoJoinedDf
  /\ join_name' = NoName
  /\ join_filename' = 0
  /\ sampled_right_df' = NoDf
  /\ attempt' = NoAttempt

ClearCascade ==
  /\ current_selected_features' = << >>
  /\ relevant_features' = NoSet
  /\ non_cond_red_feat' = NoSet
  /\ joint_rel_feat' = NoSet
  /\ selected_features' = NoSet

ClearPartial ==
  /\ partial_join_name' = NoName
  /\ partial_join' = NoDf
  /\ idx' = 0

ClearNeighbour ==
  /\ node' = NoNode
  /\ join_keys' = << >>
  /\ right_df' = NoDf
  /\ current_queue' = {}

\* ------------------------------------------- the answers of the outside
\* The fixed relation of two nodes: stored from the node with the smaller id
\* to the other one, with a weight below 1.
FixedRelations(b, n) ==
  <<[join_prop |-> [from_label |-> Label(IF b < n THEN b ELSE n),
                    from_column |-> Column(1), to_column |-> Column(1),
                    weight |-> 0],
     from_table |-> Label(b), to_table |-> Label(n)]>>

\* get_relation_properties_node_name(from_id, to_id)
KeyChoices(b, n) ==
  IF data_fixed THEN {FixedRelations(b, n)} ELSE JoinKeyLists(b, n, rel_limit)

\* What a step that keeps some elements of S may keep: any of them, or, with
\* the fixed data, all of them.
KeptOf(S) == IF data_fixed THEN {S} ELSE SUBSET S

\* The number of non-null values of the right join column in a join result of
\* rows rows that has the column: any, or, with the fixed data, all rows.
CountChoices(keys, rows) ==
  IF keys = {} THEN {0} ELSE IF data_fixed THEN {rows} ELSE 0..rows

\* measure_redundancy: a list of some of the candidates, or, with the fixed
\* data, of all of them.
SurvivorChoices(S) ==
  IF data_fixed
    THEN {CHOOSE l \in ListsOver(S) : Len(l) = Cardinality(S)}
    ELSE ListsOver(S)

\* ---------------------------------------------- bfs_traverse_join_pipeline
\* lines 59-69: pop the base node, mark it, determine its unvisited neighbours.
PopQueue ==
  /\ pc = "while_queue"
  /\ queue # {}
  /\ \E b \in queue : \E adjacent \in AdjacentChoices(b) :
       LET disc == discovered \cup {b}
           nb == UnvisitedNeighbours(adjacent, disc)
       IN  /\ queue' = queue \ {b}
           /\ discovered' = disc
           /\ base_node_id' = b
           /\ adj' = Put(adj, b, adjacent)
           /\ neighbours' = nb
           /\ todo' = nb
           /\ pc' = IF nb = {} THEN "while_queue" ELSE "for_node"
           /\ expansions' = [expansions EXCEPT ![b] = @ + 1]
  /\ UNCHANGED offered
  /\ UNCHANGED <<trial, compare, arda, value_ratio, ranked_paths, join_name_mapping,
                 partial_join_selected_features, previous_queue, initial_queue,
                 node, join_keys, right_df, current_queue, partial_join_name,
                 partial_join, idx, join_locals, cascade_locals, stack, disk,
                 base_relevant, rel_limit, feat_limit, visits, steps_of, parent_of, passed,
                 attempt, watched>>

\* line 59 with an empty queue: the call returns, to its caller's while loop
\* (line 141 is the last statement of the loop body) or to the user.
Return ==
  /\ pc = "while_queue"
  /\ queue = {}
  /\ IF stack = << >>
       THEN /\ pc' = "returned"
            /\ UNCHANGED <<queue, previous_queue, initial_queue, stack>>
       ELSE /\ pc' = "while_queue"
            /\ queue' = stack[Len(stack)].queue
            /\ previous_queue' = stack[Len(stack)].previous_queue
            /\ initial_queue' = stack[Len(stack)].initial_queue
            /\ stack' = SubSeq(stack, 1, Len(stack) - 1)
  /\ base_node_id' = NoNode
  /\ neighbours' = {}
  /\ UNCHANGED <<trial, compare, arda, fields, todo, node, join_keys, right_df, current_queue,
                 partial_join_name, partial_join, idx, join_locals,
                 cascade_locals, world, history>>

\* lines 72-87: the next neighbour; its join keys and its table are read.
NextNeighbour ==
  /\ pc = "for_node"
  /\ todo # {}
  /\ \E n \in todo : \E keys \in KeyChoices(base_node_id, n) :
       /\ todo' = todo \ {n}
       /\ IF n \in discovered
            THEN UNCHANGED <<discovered, node, join_keys, right_df,
                             current_queue, pc, visits, offered>>
            ELSE /\ discovered' = discovered \cup {n}
                 /\ node' = n
                 /\ join_keys' = keys
                 /\ right_df' = TableOf(n)
                 /\ current_queue' = {}
                 /\ pc' = "while_prev"
                 /\ visits' = [visits EXCEPT ![n] = @ + 1]
                 /\ offered' = previous_queue
  /\ UNCHANGED <<trial, compare, arda, value_ratio, ranked_paths, join_name_mapping,
                 partial_join_selected_features, queue, previous_queue,
                 initial_queue, base_node_id, neighbours, partial_join_name,
                 partial_join, idx, join_locals, cascade_locals, stack, world,
                 expansions, steps_of, parent_of, passed, attempt, watched>>

\* line 141, after the for loop: the call one level deeper, with lines 46-54 of
\* the callee (previous_queue is a set here, never None).
Recurse ==
  /\ pc = "for_node"
  /\ todo = {}
  /\ LET deeper == DeeperFrontier(previous_queue, initial_queue)
     IN  IF neighbours = {}
           THEN UNCHANGED <<queue, previous_queue, initial_queue, stack>>
           ELSE /\ stack' = Append(stack, [queue |-> queue,
                                           previous_queue |-> previous_queue,
                                           initial_queue |-> initial_queue])
                /\ queue' = neighbours
                /\ previous_queue' = deeper
                /\ initial_queue' = deeper
  /\ pc' = "while_queue"
  /\ base_node_id' = NoNode
  /\ neighbours' = {}
  /\ UNCHANGED <<trial, compare, arda, fields, todo, node, join_keys, right_df, current_queue,
                 partial_join_name, partial_join, idx, join_locals,
                 cascade_locals, world, history>>

\* lines 90-100: pop a partial join name and determine the partial join
\* (determine_partial_join, lines 239-247).  The base node's id stands for the
\* base table, whose relevant features are stored under its label; any other
\* name is read from the file join_name_mapping gives (a KeyError without one).
PopPartial ==
  /\ pc = "while_prev"
  /\ previous_queue # {}
  /\ \E p \in previous_queue :
       LET name == IF p = IdName(base_node_id) THEN Label(base_node_id) ELSE p
           skip == BaseNotInPartial(Label(base_node_id), name)
       IN  /\ previous_queue' = previous_queue \ {p}
           /\ IF p # IdName(base_node_id) /\ p \notin DOMAIN join_name_mapping
                THEN /\ pc' = "raised"
                     /\ UNCHANGED <<partial_join, partial_join_name, idx,
                                    partial_join_selected_features>>
                ELSE /\ partial_join' =
                          IF p = IdName(base_node_id)
                            THEN TableOf(base_node_id)
                            ELSE disk[join_name_mapping[p]]
                     /\ partial_join_selected_features' =
                          IF p = IdName(base_node_id)
                            THEN Put(partial_join_selected_features, name,
                                     base_relevant)
                            ELSE partial_join_selected_features
                     /\ partial_join_name' = IF skip THEN NoName ELSE name
                     /\ idx' = IF skip THEN 0 ELSE 1
                     /\ pc' = IF skip THEN "while_prev" ELSE "for_prop"
  /\ UNCHANGED <<trial, compare, arda, value_ratio, ranked_paths, join_name_mapping, discovered,
                 queue, initial_queue, base_node_id, neighbours, todo, node,
                 join_keys, right_df, current_queue, join_locals,
                 cascade_locals, stack, world, history>>

\* lines 135-137: all partial joins were tried for this neighbour.
EndPartials ==
  /\ pc = "while_prev"
  /\ previous_queue = {}
  /\ previous_queue' = Repopulate(previous_queue, initial_queue, current_queue)
  /\ pc' = "for_node"
  /\ ClearNeighbour
  /\ ClearPartial
  /\ offered' = {}
  /\ UNCHANGED <<trial, compare, arda, fields, queue, initial_queue, base_node_id, neighbours, todo,
                 join_locals, cascade_locals, stack, world, expansions, visits,
                 steps_of, parent_of, passed, attempt, watched>>

\* line 103: the relations are exhausted for this partial join.
EndProps ==
  /\ pc = "for_prop"
  /\ idx > Len(join_keys)
  /\ pc' = "while_prev"
  /\ ClearPartial
  /\ UNCHANGED <<trial, compare, arda, fields, queue, previous_queue, initial_queue, base_node_id,
                 neighbours, todo, node, join_keys, right_df, current_queue,
                 join_locals, cascade_locals, stack, world, history>>

\* lines 105-106
SkipProp ==
  /\ pc = "for_prop"
  /\ idx <= Len(join_keys)
  /\ SkipRelation(join_keys[idx])
  /\ idx' = idx + 1
  /\ UNCHANGED <<trial, compare, arda, fields, queue, previous_queue, initial_queue, base_node_id,
                 neighbours, todo, node, join_keys, right_df, current_queue,
                 partial_join_name, partial_join, join_locals, cascade_locals,
                 pc, stack, world, history>>

\* lines 110-111: right_df.groupby(<right_label>.<to_column>).sample(n=1,
\* random_state=42)
SampleRightDf(df, prop) ==
  LET rows == GroupSample(df.content, ColumnIndex(prop.join_prop.to_column),
                          Seed)
  IN  [df EXCEPT !.content = rows, !.rows = Cardinality(rows)]

\* The sample assigned to right_df itself, as trial_error.py does at line 73.
ReduceRightDf(df, sampled) == sampled

\* line 110: the sample is bound to sampled_right_df; right_df stays the table
\* read at line 83.
KeepRightDf(df, sampled) == df

\* What identifies a relation: its two tables and its two columns.
Signature(prop) ==
  <<prop.from_table, prop.join_prop.from_column, prop.to_table,
    prop.join_prop.to_column>>

\* The join sequence a partial join stands for (the base table: the empty one).
StepsOf(name) == IF name \in DOMAIN steps_of THEN steps_of[name] ELSE << >>

\* The join attempt that starts may become the watched one.
Watch(name, steps, low) ==
  {[name |-> name, steps |-> steps, low_ratio |-> low, no_relevant |-> FALSE]}

\* lines 109-115 and step_join (lines 143-162): the right table is sampled, the
\* join is named, executed and written to the file numbered len(mapping) + 1.
\* join_and_save's result has the right join column or has not; c is the
\* number of non-null values of that column in the result.  Line 168 reads the
\* column from the result: without it the gate is a KeyError and the traversal
\* ends with the error.
StepJoin ==
  /\ pc = "for_prop"
  /\ idx <= Len(join_keys)
  /\ ~SkipRelation(join_keys[idx])
  /\ ~LeftColumnMissing(partial_join, base_node_id)
  /\ \E keys \in KeptOf({RightColumn(join_keys[idx])}) :
     \E c \in CountChoices(keys, partial_join.rows) :
     \E w \in (IF keys = {} THEN {FALSE} ELSE BOOLEAN) :
       LET prop == join_keys[idx]
           sampled == SampleRightDf(right_df, prop)
           name == StepJoinName(prop, partial_join_name)
           file == StepJoinFilename(join_name_mapping)
           df == JoinedDf(partial_join, node, name, c, keys)
           steps == Append(StepsOf(partial_join_name), Signature(prop))
       IN  /\ sampled_right_df' = sampled
           /\ right_df' = KeepRightDf(right_df, sampled)
           /\ joined_df' = df
           /\ join_name' = name
           /\ join_filename' = file
           /\ disk' = Put(disk, file, StoredDf(df))
           /\ attempt' = [previous_queue |-> previous_queue,
                          current_queue |-> current_queue,
                          initial_queue |-> initial_queue,
                          join_name_mapping |-> join_name_mapping,
                          ranked_paths |-> ranked_paths,
                          partial_join_selected_features |->
                            partial_join_selected_features,
                          steps |-> steps]
           /\ watched' = IF w /\ watched = {}
                           THEN Watch(name, steps, BelowRatio(df, value_ratio))
                           ELSE watched
           /\ pc' = IF RightColumn(prop) \in keys THEN "quality" ELSE "raised"
  /\ UNCHANGED <<trial, compare, arda, fields, queue, previous_queue, initial_queue, base_node_id,
                 neighbours, todo, node, join_keys, current_queue,
                 partial_join_name, partial_join, idx, cascade_locals, stack,
                 adj, base_relevant, rel_limit, feat_limit, expansions, offered, visits,
                 steps_of, parent_of, passed>>

\* The join does not come back: the partial join lacks the left join column (a
\* KeyError of the merge), or the join columns have incompatible value types
\* and the join is refused.  Lines 114-118 handle neither; the traversal ends
\* with the error.
StepJoinRaises ==
  /\ pc = "for_prop"
  /\ idx <= Len(join_keys)
  /\ ~SkipRelation(join_keys[idx])
  /\ pc' = "raised"
  /\ UNCHANGED <<trial, compare, arda, fields, frame, join_locals, cascade_locals, stack, world,
                 history>>

\* lines 117-120 and step_data_quality
StepDataQuality ==
  /\ pc = "quality"
  /\ IF step_data_quality(joined_df, value_ratio)
       THEN /\ pc' = "select"
            /\ UNCHANGED <<idx, join_locals, attempt>>
       ELSE /\ pc' = "for_prop"
            /\ idx' = idx + 1
            /\ ClearJoin
  /\ UNCHANGED <<trial, compare, arda, fields, queue, previous_queue, initial_queue, base_node_id,
                 neighbours, todo, node, join_keys, right_df, current_queue,
                 partial_join_name, partial_join, cascade_locals, stack, world,
                 expansions, offered, visits, steps_of, parent_of, passed,
                 watched>>

\* The columns of a dataframe.
ColumnsOf(df) == UNION {Columns(t) : t \in df.tables}

\* lines 179-181
RightFeatures(df, target) == ColumnsOf(df) \ {target}

\* The watched attempt, once stage 1 found rel for the running join.
WatchStage1(rel) ==
  {IF x.name = join_name /\ x.steps = attempt.steps /\ rel = {}
     THEN [x EXCEPT !.no_relevant = TRUE] ELSE x : x \in watched}

\* step_feature_selection, lines 177-207: the ancestor's list is looked up (a
\* KeyError without one) and stages 1 to 3 are measured.  measure_relevance keeps
\* some of the right features; conditional redundancy and joint mutual
\* information each keep some of the relevant ones.  Without a relevant feature
\* the join is rejected at line 190, before stages 2 and 3.
MeasureStages ==
  /\ pc = "select"
  /\ \E rel \in KeptOf(RightFeatures(right_df, Target)) :
     \E ncr \in KeptOf(rel) : \E jr \in KeptOf(rel) :
       IF partial_join_name \notin DOMAIN partial_join_selected_features
         THEN /\ pc' = "raised"
              /\ UNCHANGED <<idx, join_locals, cascade_locals, attempt,
                             watched>>
         ELSE /\ watched' = WatchStage1(rel)
              /\ IF Stage1Rejects(rel)
                   THEN /\ pc' = "for_prop"
                        /\ idx' = idx + 1
                        /\ ClearJoin
                        /\ ClearCascade
                   ELSE /\ pc' = "combine"
                        /\ current_selected_features' =
                             partial_join_selected_features[partial_join_name]
                        /\ relevant_features' = rel
                        /\ non_cond_red_feat' = ncr
                        /\ joint_rel_feat' = jr
                        /\ UNCHANGED <<idx, join_locals, selected_features,
                                       attempt>>
  /\ UNCHANGED <<trial, compare, arda, fields, queue, previous_queue, initial_queue, base_node_id,
                 neighbours, todo, node, join_keys, right_df, current_queue,
                 partial_join_name, partial_join, stack, world, expansions,
                 offered, visits, steps_of, parent_of, passed>>

\* lines 208-215: the combination of stages 2 and 3
Combine ==
  /\ pc = "combine"
  /\ IF CombineRejects(non_cond_red_feat, joint_rel_feat)
       THEN /\ pc' = "for_prop"
            /\ idx' = idx + 1
            /\ ClearJoin
            /\ ClearCascade
       ELSE /\ pc' = "stage4"
            /\ selected_features' =
                 CombineStages(non_cond_red_feat, joint_rel_feat)
            /\ UNCHANGED <<idx, join_locals, current_selected_features,
                           relevant_features, non_cond_red_feat, joint_rel_feat,
                           attempt>>
  /\ UNCHANGED <<trial, compare, arda, fields, queue, previous_queue, initial_queue, base_node_id,
                 neighbours, todo, node, join_keys, right_df, current_queue,
                 partial_join_name, partial_join, stack, world, expansions,
                 offered, visits, steps_of, parent_of, passed, watched>>

\* Stage 4 without its early return.
Stage4Continues(non_red_feat) == FALSE

\* lines 222-224: nothing survives stage 4, the join is skipped
Stage4Rejects(non_red_feat) == Len(non_red_feat) = 0

\* The data of the running join pass the gate and the cascade: enough non-null
\* values, a relevant feature, and a feature that survives stage 4.
DataPass(non_red_feat) ==
  /\ ~BelowRatio(joined_df, value_ratio)
  /\ relevant_features # {}
  /\ Len(non_red_feat) > 0

\* The ancestor's list extended in place: one list object under both names.
StoreSelectedInPlace(store, partial, name, selected) ==
  Put(Put(store, partial, selected), name, selected)

\* line 229: self.partial_join_selected_features[current_join_name] = selected_features
StoreSelected(store, partial, name, selected) == Put(store, name, selected)

\* step_feature_selection returned None.
NotAccepted == [accepted |-> FALSE, features |-> << >>]

\* step_feature_selection (lines 174-231) as a function of the stored lists, the
\* two names and what the four stage functions give (rel, ncr, jr, nr): what
\* it returns and what is stored afterwards.
step_feature_selection(store, partial, name, rel, ncr, jr, nr) ==
  LET selected == ExtendSelected(nr, store[partial])
  IN  IF Stage1Rejects(rel) \/ CombineRejects(ncr, jr) \/ Stage4Rejects(nr)
        THEN [returned |-> NotAccepted, store |-> store]
        ELSE [returned |-> [accepted |-> TRUE, features |-> selected],
              store |-> StoreSelected(store, partial, name, selected)]

\* lines 217-231: measure_redundancy keeps a list of some of the candidates; an
\* empty list rejects the join, otherwise the list, extended by the ancestor's,
\* is stored for the new path and returned to line 123.
Stage4 ==
  /\ pc = "stage4"
  /\ \E non_red_feat \in SurvivorChoices(selected_features) :
       IF Stage4Rejects(non_red_feat)
         THEN /\ pc' = "for_prop"
              /\ idx' = idx + 1
              /\ ClearJoin
              /\ ClearCascade
              /\ UNCHANGED <<partial_join_selected_features, passed, parent_of>>
         ELSE /\ pc' = "rank"
              /\ partial_join_selected_features' =
                   StoreSelected(
                     partial_join_selected_features, partial_join_name,
                     join_name,
                     ExtendSelected(non_red_feat, current_selected_features))
              /\ current_selected_features' =
                   ExtendSelected(non_red_feat, current_selected_features)
              /\ relevant_features' = NoSet
              /\ non_cond_red_feat' = NoSet
              /\ joint_rel_feat' = NoSet
              /\ selected_features' = NoSet
              /\ passed' = IF DataPass(non_red_feat)
                             THEN passed \cup {join_name} ELSE passed
              /\ parent_of' = Put(parent_of, join_name, partial_join_name)
              /\ UNCHANGED <<idx, join_locals, attempt>>
  /\ UNCHANGED <<trial, compare, arda, value_ratio, ranked_paths, join_name_mapping, discovered,
                 queue, previous_queue, initial_queue, base_node_id, neighbours,
                 todo, node, join_keys, right_df, current_queue,
                 partial_join_name, partial_join, stack, world, expansions,
                 offered, visits, steps_of, watched>>

\* A mapping rebound to the new entry alone.
OnlyLastJoinName(mapping, name, file) == [x \in {name} |-> file]

\* line 133: self.join_name_mapping[join_name] = join_filename
SaveJoinName(mapping, name, file) == Put(mapping, name, file)

\* lines 128-133 and step_rank_path: the path is ranked, joins the new frontier
\* and gets its file recorded.
StepRankPath ==
  /\ pc = "rank"
  /\ ranked_paths' =
       Put(ranked_paths, join_name,
           [columns |-> RankColumns(current_selected_features)])
  /\ current_queue' = current_queue \cup {join_name}
  /\ join_name_mapping' =
       SaveJoinName(join_name_mapping, join_name, join_filename)
  /\ steps_of' = Put(steps_of, join_name, attempt.steps)
  /\ UNCHANGED parent_of
  /\ pc' = "for_prop"
  /\ idx' = idx + 1
  /\ ClearJoin
  /\ ClearCascade
  /\ UNCHANGED <<trial, compare, arda, value_ratio, discovered, partial_join_selected_features, queue,
                 previous_queue, initial_queue, base_node_id, neighbours, todo,
                 node, join_keys, right_df, partial_join_name, partial_join,
                 stack, world, expansions, offered, visits, passed, watched>>

\* ------------------------------------------------------- the specification
Next ==
  \/ PopQueue
  \/ Return
  \/ NextNeighbour
  \/ Recurse
  \/ PopPartial
  \/ EndPartials
  \/ EndProps
  \/ SkipProp
  \/ StepJoin
  \/ StepJoinRaises
  \/ StepDataQuality
  \/ MeasureStages
  \/ Combine
  \/ Stage4
  \/ StepRankPath

Spec == Init /\ [][Next]_vars

\* The traversal is one sequential computation: it takes its next step as long
\* as it has one.
FairSpec == Spec /\ WF_vars(Next)

\* The traversal of the graphs over all the nodes.
WideSpec == InitWide /\ [][Next]_vars

\* The traversal of two tables with up to MoreRel relations.
SampleSpec == InitSample /\ [][Next]_vars

\* A second BfsAugmentation instance traverses the same graph and data after
\* the first one returned: the path names the first one ranked are remembered,
\* the fields and locals are those of a new instance and a new call, and the
\* graph, the threshold and the data stay.
RunAgain ==
  /\ pc = "returned"
  /\ data_fixed
  /\ first_result = NoResult
  /\ first_result' = DOMAIN ranked_paths
  /\ ranked_paths' = EmptyMap
  /\ join_name_mapping' = EmptyMap
  /\ discovered' = {}
  /\ partial_join_selected_features' = EmptyMap
  /\ queue' = {BaseNode}
  /\ previous_queue' = {IdName(BaseNode)}
  /\ initial_queue' = {IdName(BaseNode)}
  /\ base_node_id' = NoNode
  /\ neighbours' = {}
  /\ todo' = {}
  /\ node' = NoNode
  /\ join_keys' = << >>
  /\ right_df' = NoDf
  /\ current_queue' = {}
  /\ partial_join_name' = NoName
  /\ partial_join' = NoDf
  /\ idx' = 0
  /\ joined_df' = NoJoinedDf
  /\ join_name' = NoName
  /\ join_filename' = 0
  /\ sampled_right_df' = NoDf
  /\ current_selected_features' = << >>
  /\ relevant_features' = NoSet
  /\ non_cond_red_feat' = NoSet
  /\ joint_rel_feat' = NoSet
  /\ selected_features' = NoSet
  /\ pc' = "while_queue"
  /\ stack' = << >>
  /\ disk' = EmptyMap
  /\ expansions' = [n \in Nodes |-> 0]
  /\ offered' = {}
  /\ visits' = [n \in Nodes |-> 0]
  /\ steps_of' = Put(EmptyMap, Label(BaseNode), << >>)
  /\ parent_of' = EmptyMap
  /\ passed' = {}
  /\ attempt' = NoAttempt
  /\ watched' = {}
  /\ UNCHANGED <<trial, arda, value_ratio, base_relevant, adj, rel_limit, feat_limit,
                 data_fixed>>

OrderNext == Next \/ RunAgain

\* Two traversals of the same graph and data; the order in which the sets are
\* popped and iterated is free in both.
OrderSpec == InitOrder /\ [][OrderNext]_vars

\* ============================================================ trial_error.py
\* bfs_traverse_join_pipeline and dfs_traverse_join_pipeline of
\* src/augmentation/trial_error.py.  Both walk a join tree the caller passes;
\* the training results they collect (train_results) touch nothing else and are
\* left out.

\* previous_queue = None, previous_paths = None: no set of path names.
NonePaths == {NoName}

\* The nodes of S and their descendants in t.
RECURSIVE Under(_, _)
Under(t, S) ==
  LET more == S \cup UNION {t[n] : n \in S}
  IN  IF more = S THEN S ELSE Under(t, more)

\* The join trees over the first Related nodes, as the children of each node: a
\* node has at most one parent, and a node with children is the base node or
\* one of its descendants.
JoinTrees ==
  {t \in [Nodes -> SUBSET ((1..Related) \ {BaseNode})] :
     /\ \A n \in Nodes : n \notin t[n]
     /\ \A n, m \in Nodes : n # m => t[n] \cap t[m] = {}
     /\ \A n \in Nodes : t[n] # {} => n \in Under(t, {BaseNode})}

\* The keys of the dict join_tree: the base node for the dict the caller
\* passes, the children of a node for join_tree[node].
TreeKeys(owner) == IF owner = NoNode THEN {BaseNode} ELSE tree[owner]

\* What neither function of trial_error.py touches.
idle ==
  <<value_ratio, ranked_paths, discovered, partial_join_selected_features,
    neighbours, sampled_right_df, cascade_locals, adj, base_relevant, rel_limit,
    feat_limit,
    history, tree, compare, arda>>

bfs_locals ==
  <<queue, previous_queue, initial_queue, current_queue, partial_join_name,
    partial_join, current_node_id>>

dfs_locals ==
  <<base_node_id, previous_paths, all_paths, next_paths, current_paths,
    current_join_path, result, stack>>

join_state == <<joined_df, join_name, join_filename, join_name_mapping, disk>>

\* test_bfs_pipeline and test_dfs_pipeline (src/experiments/test.py): one of the
\* two functions is called with the base node, a join tree, an empty
\* join_name_mapping and no previous paths.
InitTrial ==
  /\ NoArda
  /\ value_ratio \in Ratios
  /\ tree \in JoinTrees
  /\ pc \in {"bfs_entry", "dfs_entry"}
  /\ queue = IF pc = "bfs_entry" THEN {BaseNode} ELSE {}
  /\ previous_queue = IF pc = "bfs_entry" THEN NonePaths ELSE {}
  /\ base_node_id = IF pc = "dfs_entry" THEN BaseNode ELSE NoNode
  /\ previous_paths = IF pc = "dfs_entry" THEN NonePaths ELSE {}
  /\ join_tree = NoNode
  /\ current_node_id = NoNode
  /\ left_df = NoDf
  /\ all_paths = {}
  /\ next_paths = {}
  /\ current_paths = {}
  /\ current_join_path = NoName
  /\ result = {}
  /\ ranked_paths = EmptyMap
  /\ join_name_mapping = EmptyMap
  /\ discovered = {}
  /\ partial_join_selected_features = EmptyMap
  /\ initial_queue = {}
  /\ neighbours = {}
  /\ todo = {}
  /\ node = NoNode
  /\ join_keys = << >>
  /\ right_df = NoDf
  /\ current_queue = {}
  /\ partial_join_name = NoName
  /\ partial_join = NoDf
  /\ idx = 0
  /\ joined_df = NoJoinedDf
  /\ join_name = NoName
  /\ join_filename = 0
  /\ sampled_right_df = NoDf
  /\ current_selected_features = << >>
  /\ relevant_features = NoSet
  /\ non_cond_red_feat = NoSet
  /\ joint_rel_feat = NoSet
  /\ selected_features = NoSet
  /\ stack = << >>
  /\ adj = EmptyMap
  /\ disk = EmptyMap
  /\ base_relevant = << >>
  /\ rel_limit = MaxRel
  /\ feat_limit = NumFeat
  /\ expansions = [n \in Nodes |-> 0]
  /\ visits = [n \in Nodes |-> 0]
  /\ steps_of = EmptyMap
  /\ parent_of = EmptyMap
  /\ passed = {}
  /\ attempt = NoAttempt
  /\ watched = {}
  /\ offered = {}
  /\ data_fixed = FALSE
  /\ first_result = NoResult

\* lines 68 and 154: a relation stored in the other direction is skipped
TrialSkips(prop) == prop.join_prop.from_label # prop.from_table

\* lines 75-88 and 170-182: the join is named, its file is numbered and entered
\* in join_name_mapping, then join_and_save joins left with right_df and writes
\* the file.  The data of the result are those of left joined along the
\* relation.  A join that is refused, or whose left column is not in left,
\* does not come back; a result without the right join column is a KeyError at
\* the gate.
TrialJoin(left, path, from_node, gate_pc) ==
  LET prop == join_keys[idx]
      name == compute_partial_join_filename(prop, path)
      file == Cardinality(DOMAIN join_name_mapping) + 1
  IN  /\ join_name' = name
      /\ join_filename' = file
      /\ join_name_mapping' = Put(join_name_mapping, name, file)
      /\ \E refused \in BOOLEAN :
           IF refused \/ LeftColumnMissing(left, from_node)
             THEN /\ pc' = "raised"
                  /\ UNCHANGED <<joined_df, disk>>
             ELSE \E keys \in SUBSET {RightColumn(prop)} :
                  \E c \in 0..(IF keys = {} THEN 0 ELSE left.rows) :
                    LET df == JoinedDf(left, node,
                                       compute_partial_join_filename(
                                         prop, left.data_of),
                                       c, keys)
                    IN  /\ joined_df' = df
                        /\ disk' = Put(disk, file, StoredDf(df))
                        /\ pc' = IF keys = {} THEN "raised" ELSE gate_pc

\* The locals of a join attempt, dead after the gate.
TrialClearJoin ==
  /\ joined_df' = NoJoinedDf
  /\ join_name' = NoName
  /\ join_filename' = 0

\* -------------------------------- trial_error.bfs_traverse_join_pipeline
\* lines 31-46: return on an empty queue; pop a node and look up its children
\* in join_tree (a KeyError without the key); return if it has none; read its
\* table and set up previous_queue and initial_queue.
TrialBfsEnter ==
  /\ pc = "bfs_entry"
  /\ IF queue = {}
       THEN /\ pc' = "returned"
            /\ UNCHANGED <<queue, current_node_id, left_df, previous_queue,
                           initial_queue, todo>>
       ELSE \E n \in queue :
              /\ queue' = queue \ {n}
              /\ current_node_id' = n
              /\ IF n \notin TreeKeys(join_tree) \/ tree[n] = {}
                   THEN /\ pc' = IF n \in TreeKeys(join_tree)
                                   THEN "returned" ELSE "raised"
                        /\ UNCHANGED <<left_df, previous_queue, initial_queue,
                                       todo>>
                   ELSE LET previous ==
                              IF previous_queue = NonePaths
                                THEN {Label(n)} ELSE previous_queue
                        IN  /\ left_df' = TableOf(n)
                            /\ previous_queue' = previous
                            /\ initial_queue' = previous
                            /\ todo' = tree[n]
                            /\ pc' = "bfs_node"
  /\ UNCHANGED <<idle, dfs_locals, join_state, join_tree, node, join_keys,
                 right_df, idx, current_queue, partial_join_name, partial_join>>

\* lines 48-55: the next adjacent node; its join keys and its table are read.
TrialBfsNextNode ==
  /\ pc = "bfs_node"
  /\ todo # {}
  /\ \E n \in todo : \E keys \in JoinKeyLists(current_node_id, n, rel_limit) :
       /\ todo' = todo \ {n}
       /\ node' = n
       /\ join_keys' = keys
       /\ right_df' = TableOf(n)
       /\ current_queue' = {}
  /\ pc' = "bfs_prev"
  /\ UNCHANGED <<idle, dfs_locals, join_state, join_tree, left_df, idx, queue,
                 previous_queue, initial_queue, partial_join_name, partial_join,
                 current_node_id>>

\* lines 109-110: the call one level deeper, with the same queue and with
\* join_tree[current_node_id] as the join tree.
TrialBfsRecurse ==
  /\ pc = "bfs_node"
  /\ todo = {}
  /\ join_tree' = current_node_id
  /\ pc' = "bfs_entry"
  /\ UNCHANGED <<idle, dfs_locals, join_state, bfs_locals, left_df, todo, node,
                 join_keys, right_df, idx>>

\* lines 56-64: pop a partial join name; its dataframe is the node's table or
\* the file join_name_mapping gives.
TrialBfsPopPartial ==
  /\ pc = "bfs_prev"
  /\ previous_queue # {}
  /\ \E p \in previous_queue :
       /\ previous_queue' = previous_queue \ {p}
       /\ partial_join_name' = p
       /\ IF p # Label(current_node_id) /\ p \notin DOMAIN join_name_mapping
            THEN /\ pc' = "raised"
                 /\ UNCHANGED <<partial_join, idx>>
            ELSE /\ partial_join' = IF p = Label(current_node_id)
                                      THEN left_df
                                      ELSE disk[join_name_mapping[p]]
                 /\ idx' = 1
                 /\ pc' = "bfs_prop"
  /\ UNCHANGED <<idle, dfs_locals, join_state, join_tree, left_df, todo, node,
                 join_keys, right_df, queue, initial_queue, current_queue,
                 current_node_id>>

\* lines 106-107: the new paths, or the initial ones if there are none, are the
\* next previous_queue; the node joins the queue.
TrialBfsEndPartials ==
  /\ pc = "bfs_prev"
  /\ previous_queue = {}
  /\ previous_queue' =
       IF current_queue # {} THEN current_queue ELSE initial_queue
  /\ queue' = queue \cup {node}
  /\ pc' = "bfs_node"
  /\ ClearNeighbour
  /\ ClearPartial
  /\ UNCHANGED <<idle, dfs_locals, join_state, join_tree, left_df, todo,
                 initial_queue, current_node_id>>

\* lines 66-69: the loop over the relations ends, or skips a relation.
TrialBfsNextProp ==
  /\ pc = "bfs_prop"
  /\ IF idx > Len(join_keys)
       THEN /\ pc' = "bfs_prev"
            /\ idx' = 0
       ELSE /\ TrialSkips(join_keys[idx])
            /\ idx' = idx + 1
            /\ UNCHANGED pc
  /\ UNCHANGED <<idle, dfs_locals, join_state, bfs_locals, join_tree, left_df,
                 todo, node, join_keys, right_df>>

\* lines 72-88: right_df is replaced by its sample, then the join
TrialBfsJoin ==
  /\ pc = "bfs_prop"
  /\ idx <= Len(join_keys)
  /\ ~TrialSkips(join_keys[idx])
  /\ right_df' = SampleRightDf(right_df, join_keys[idx])
  /\ TrialJoin(partial_join, partial_join_name, current_node_id, "bfs_gate")
  /\ UNCHANGED <<idle, dfs_locals, bfs_locals, join_tree, left_df, todo, node,
                 join_keys, idx>>

\* lines 90-104: the gate; a join that passes joins current_queue.
TrialBfsGate ==
  /\ pc = "bfs_gate"
  /\ current_queue' = IF BelowRatio(joined_df, value_ratio)
                        THEN current_queue
                        ELSE current_queue \cup {join_name}
  /\ idx' = idx + 1
  /\ pc' = "bfs_prop"
  /\ TrialClearJoin
  /\ UNCHANGED <<idle, dfs_locals, join_name_mapping, disk, join_tree, left_df,
                 todo, node, join_keys, right_df, queue, previous_queue,
                 initial_queue, partial_join_name, partial_join,
                 current_node_id>>

\* -------------------------------- trial_error.dfs_traverse_join_pipeline
\* return value: to the user, or to line 203 of the calling frame, where line
\* 205 adds the returned paths to all_paths and the loop over the nodes goes on.
DfsReturnTo(value) ==
  IF stack = << >>
    THEN /\ result' = value
         /\ pc' = "returned"
         /\ UNCHANGED <<base_node_id, join_tree, left_df, todo, all_paths,
                        stack>>
    ELSE LET caller == stack[Len(stack)]
         IN  /\ base_node_id' = caller.base_node_id
             /\ join_tree' = caller.join_tree
             /\ left_df' = caller.left_df
             /\ todo' = caller.todo
             /\ all_paths' = caller.all_paths \cup value
             /\ stack' = SubSeq(stack, 1, Len(stack) - 1)
             /\ pc' = "dfs_node"
             /\ UNCHANGED result

\* lines 131-133: a node without children ends the recursion
DfsEndNode ==
  /\ pc = "dfs_entry"
  /\ tree[base_node_id] = {}
  /\ DfsReturnTo(previous_paths)
  /\ previous_paths' = {}
  /\ UNCHANGED <<idle, bfs_locals, join_state, node, join_keys, right_df, idx,
                 next_paths, current_paths, current_join_path>>

\* lines 135-141: the outermost call reads the base table and starts from its
\* label; a deeper call has no dataframe yet.
DfsBegin ==
  /\ pc = "dfs_entry"
  /\ tree[base_node_id] # {}
  /\ left_df' = IF previous_paths = NonePaths
                  THEN TableOf(base_node_id) ELSE NoDf
  /\ all_paths' = IF previous_paths = NonePaths
                    THEN {Label(base_node_id)} ELSE previous_paths
  /\ previous_paths' = {}
  /\ todo' = tree[base_node_id]
  /\ pc' = "dfs_node"
  /\ UNCHANGED <<idle, bfs_locals, join_state, join_tree, node, join_keys,
                 right_df, idx, base_node_id, next_paths, current_paths,
                 current_join_path, result, stack>>

\* lines 144-151: the next child; its join keys and its table are read.
DfsNextNode ==
  /\ pc = "dfs_node"
  /\ todo # {}
  /\ \E n \in todo : \E keys \in JoinKeyLists(base_node_id, n, rel_limit) :
       /\ todo' = todo \ {n}
       /\ node' = n
       /\ join_keys' = keys
       /\ right_df' = TableOf(n)
  /\ next_paths' = {}
  /\ idx' = 1
  /\ pc' = "dfs_prop"
  /\ UNCHANGED <<idle, bfs_locals, join_state, join_tree, left_df,
                 base_node_id, previous_paths, all_paths, current_paths,
                 current_join_path, result, stack>>

\* line 208: return all_paths
DfsReturn ==
  /\ pc = "dfs_node"
  /\ todo = {}
  /\ DfsReturnTo(all_paths)
  /\ UNCHANGED <<idle, bfs_locals, join_state, node, join_keys, right_df, idx,
                 previous_paths, next_paths, current_paths, current_join_path>>

\* lines 152-161: a relation is skipped, or right_df is replaced by its sample
\* and every path of all_paths is to be joined along the relation.
DfsNextProp ==
  /\ pc = "dfs_prop"
  /\ idx <= Len(join_keys)
  /\ IF TrialSkips(join_keys[idx])
       THEN /\ idx' = idx + 1
            /\ UNCHANGED <<right_df, current_paths, pc>>
       ELSE /\ right_df' = SampleRightDf(right_df, join_keys[idx])
            /\ current_paths' = all_paths
            /\ pc' = "dfs_path"
            /\ UNCHANGED idx
  /\ UNCHANGED <<idle, bfs_locals, join_state, join_tree, left_df, todo, node,
                 join_keys, base_node_id, previous_paths, all_paths, next_paths,
                 current_join_path, result, stack>>

\* lines 200-204: the relations are exhausted; the call for the child, with
\* join_tree[base_node_id] and the child's new paths.
DfsCall ==
  /\ pc = "dfs_prop"
  /\ idx > Len(join_keys)
  /\ stack' = Append(stack, [base_node_id |-> base_node_id,
                             join_tree |-> join_tree, left_df |-> left_df,
                             todo |-> todo, all_paths |-> all_paths])
  /\ base_node_id' = node
  /\ join_tree' = base_node_id
  /\ previous_paths' = next_paths
  /\ left_df' = NoDf
  /\ all_paths' = {}
  /\ todo' = {}
  /\ next_paths' = {}
  /\ node' = NoNode
  /\ join_keys' = << >>
  /\ right_df' = NoDf
  /\ idx' = 0
  /\ pc' = "dfs_entry"
  /\ UNCHANGED <<idle, bfs_locals, join_state, current_paths,
                 current_join_path, result>>

\* lines 162-182: pop a path; left_df is read from the path's file only if
\* there is no left_df yet (a KeyError if the path has no file); the join.
DfsJoin ==
  /\ pc = "dfs_path"
  /\ current_paths # {}
  /\ \E p \in current_paths :
       /\ current_paths' = current_paths \ {p}
       /\ current_join_path' = p
       /\ IF left_df = NoDf /\ p \notin DOMAIN join_name_mapping
            THEN /\ pc' = "raised"
                 /\ UNCHANGED <<left_df, join_state>>
            ELSE LET left == IF left_df = NoDf
                               THEN disk[join_name_mapping[p]] ELSE left_df
                 IN  /\ left_df' = left
                     /\ TrialJoin(left, p, base_node_id, "dfs_gate")
  /\ UNCHANGED <<idle, bfs_locals, join_tree, todo, node, join_keys, right_df,
                 idx, base_node_id, previous_paths, all_paths, next_paths,
                 result, stack>>

\* line 162 with no path left: the next relation
DfsEndPaths ==
  /\ pc = "dfs_path"
  /\ current_paths = {}
  /\ current_join_path' = NoName
  /\ idx' = idx + 1
  /\ pc' = "dfs_prop"
  /\ UNCHANGED <<idle, bfs_locals, join_state, join_tree, left_df, todo, node,
                 join_keys, right_df, base_node_id, previous_paths, all_paths,
                 next_paths, current_paths, result, stack>>

\* lines 184-198: the gate; a join that passes joins next_paths.
DfsGate ==
  /\ pc = "dfs_gate"
  /\ next_paths' = IF BelowRatio(joined_df, value_ratio)
                     THEN next_paths
                     ELSE next_paths \cup {join_name}
  /\ pc' = "dfs_path"
  /\ TrialClearJoin
  /\ UNCHANGED <<idle, bfs_locals, join_name_mapping, disk, join_tree, left_df,
                 todo, node, join_keys, right_df, idx, base_node_id,
                 previous_paths, all_paths, current_paths, current_join_path,
                 result, stack>>

TrialNext ==
  \/ TrialBfsEnter
  \/ TrialBfsNextNode
  \/ TrialBfsRecurse
  \/ TrialBfsPopPartial
  \/ TrialBfsEndPartials
  \/ TrialBfsNextProp
  \/ TrialBfsJoin
  \/ TrialBfsGate
  \/ DfsEndNode
  \/ DfsBegin
  \/ DfsNextNode
  \/ DfsReturn
  \/ DfsNextProp
  \/ DfsCall
  \/ DfsJoin
  \/ DfsEndPaths
  \/ DfsGate

\* One call of one of the two functions of trial_error.py.
TrialSpec == InitTrial /\ [][TrialNext]_vars

\* ------------------------------------ arda.select_arda_features_budget_join
\* Neither BfsAugmentation nor a function of trial_error.py is in use.
NoPipeline ==
  /\ value_ratio = <<0, 1>>
  /\ ranked_paths = EmptyMap
  /\ join_name_mapping = EmptyMap
  /\ discovered = {}
  /\ partial_join_selected_features = EmptyMap
  /\ queue = {}
  /\ previous_queue = {}
  /\ initial_queue = {}
  /\ base_node_id = NoNode
  /\ neighbours = {}
  /\ todo = {}
  /\ node = NoNode
  /\ join_keys = << >>
  /\ right_df = NoDf
  /\ current_queue = {}
  /\ partial_join_name = NoName
  /\ partial_join = NoDf
  /\ idx = 0
  /\ joined_df = NoJoinedDf
  /\ join_name = NoName
  /\ join_filename = 0
  /\ sampled_right_df = NoDf
  /\ current_selected_features = << >>
  /\ relevant_features = NoSet
  /\ non_cond_red_feat = NoSet
  /\ joint_rel_feat = NoSet
  /\ selected_features = NoSet
  /\ stack = << >>
  /\ adj = EmptyMap
  /\ disk = EmptyMap
  /\ base_relevant = << >>
  /\ rel_limit = MaxRel
  /\ feat_limit = NumFeat
  /\ expansions = [n \in Nodes |-> 0]
  /\ visits = [n \in Nodes |-> 0]
  /\ steps_of = EmptyMap
  /\ parent_of = EmptyMap
  /\ passed = {}
  /\ attempt = NoAttempt
  /\ watched = {}
  /\ offered = {}
  /\ tree = [n \in Nodes |-> {}]
  /\ join_tree = NoNode
  /\ current_node_id = NoNode
  /\ left_df = NoDf
  /\ previous_paths = {}
  /\ all_paths = {}
  /\ next_paths = {}
  /\ current_paths = {}
  /\ current_join_path = NoName
  /\ result = {}
  /\ data_fixed = FALSE
  /\ first_result = NoResult

pipeline ==
  <<fields, frame, join_locals, cascade_locals, stack, world, history, trial,
    compare>>

\* The name of the target column in a relation.
TargetName == <<"t">>

\* The join column of a table, as a column of a dataframe.
KeyColumn(n) == <<n, 0>>

\* pd.read_csv of a node's table, columns prefixed: the join column and the
\* feature columns.
TableColumns(n) == {KeyColumn(n)} \cup Features(n)

\* get_adjacent_nodes(base_node_id): a list of different nodes.
AdjacentLists == ListsOver(Nodes \ {BaseNode})

\* lines 185-188: the base table is sampled down to sample_size rows when
\* sample_size is given (not None, here 0) and smaller than the table;
\* budget_size is the number of rows left.
Budget(sample_size, rows) ==
  IF sample_size # 0 /\ sample_size < rows THEN sample_size ELSE rows

\* get_relation_properties_node_name(from_id, to_id)[0] for an adjacent node:
\* the relation is stored in either direction, and the column on the base
\* table's side is a join column or the target column.
ArdaJoinKeys(b, n) ==
  {[join_prop |-> [from_label |-> IF out THEN Label(b) ELSE Label(n),
                   to_label |-> IF out THEN Label(n) ELSE Label(b),
                   from_column |-> IF out THEN c ELSE Column(1),
                   to_column |-> IF out THEN Column(1) ELSE c],
    from_table |-> Label(b), to_table |-> Label(n)] :
     out \in BOOLEAN, c \in {Column(1), TargetName}}

\* lines 210-216: the relation joins on the target column of the base table
JoinsOnTarget(join_key, base_label, target_column) ==
  \/ /\ join_key.join_prop.from_label = base_label
     /\ join_key.join_prop.from_column = target_column
  \/ /\ join_key.join_prop.to_label = base_label
     /\ join_key.join_prop.to_column = target_column

\* The elements of a set as a list.
RECURSIVE AsList(_)
AsList(S) ==
  IF S = {} THEN << >>
  ELSE LET x == CHOOSE y \in S : TRUE IN <<x>> \o AsList(S \ {x})

\* A loop that stops with one node left.
MoreThanOne(list) == Len(list) > 1

\* line 196: while len(nodes) > 0
OuterRuns(list) == Len(list) > 0

\* line 200: while feature_count <= budget_size and len(nodes) > 0
InnerRuns(count, budget, list) == count <= budget /\ Len(list) > 0

\* lines 179-195: the base table is read and sampled, its columns are prefixed,
\* and the adjacent nodes are asked for.
InitArda ==
  /\ NoPipeline
  /\ pc = "arda_outer"
  /\ nodes \in AdjacentLists
  /\ \E sample_size \in 0..Rows : budget_size = Budget(sample_size, Rows)
  /\ left_table = TableColumns(BaseNode) \cup {Target}
  /\ feature_count = 0
  /\ all_columns = {}
  /\ final_selected_features = << >>
  /\ pops = [n \in Nodes |-> 0]
  /\ pass_pops = 0
  /\ T = << >>
  /\ position = 0
  /\ last_accuracy = 0
  /\ last_indices = {}
  /\ indices = {}
  /\ dim = 0
  /\ tau = 0
  /\ counts = << >>
  /\ round = 0
  /\ feature_importance_scores = << >>
  /\ ranking = << >>
  /\ bins = << >>
  /\ tried = << >>

\* lines 196-197: a pass of the outer loop begins.
ArdaBeginPass ==
  /\ pc = "arda_outer"
  /\ OuterRuns(nodes)
  /\ feature_count' = 0
  /\ pass_pops' = 0
  /\ pc' = "arda_inner"
  /\ UNCHANGED <<nodes, budget_size, left_table, all_columns,
                 final_selected_features, pops, pipeline, wrapper>>

\* lines 196 and 290: the list is empty, the function returns.
ArdaReturn ==
  /\ pc = "arda_outer"
  /\ ~OuterRuns(nodes)
  /\ pc' = "arda_returned"
  /\ UNCHANGED <<budget_join, pipeline, wrapper>>

\* line 201: node_id = nodes.pop()
ArdaPop ==
  /\ nodes' = SubSeq(nodes, 1, Len(nodes) - 1)
  /\ pops' = [pops EXCEPT ![nodes[Len(nodes)]] = @ + 1]
  /\ pass_pops' = pass_pops + 1

\* lines 200-216 and 236-237: the node is popped and skipped, because its
\* relation joins on the target column or the join columns differ in type.
ArdaSkipNode ==
  /\ pc = "arda_inner"
  /\ InnerRuns(feature_count, budget_size, nodes)
  /\ ArdaPop
  /\ \E join_key \in ArdaJoinKeys(BaseNode, nodes[Len(nodes)]) :
     \E same_dtype \in BOOLEAN :
       \/ JoinsOnTarget(join_key, Label(BaseNode), TargetName)
       \/ ~same_dtype
  /\ UNCHANGED <<pc, feature_count, budget_size, left_table, all_columns,
                 final_selected_features, pipeline, wrapper>>

\* lines 200-247: the node is popped and joined; the right join column is
\* dropped and the other columns of the right table count for the budget.
ArdaJoinNode ==
  /\ pc = "arda_inner"
  /\ InnerRuns(feature_count, budget_size, nodes)
  /\ ArdaPop
  /\ \E join_key \in ArdaJoinKeys(BaseNode, nodes[Len(nodes)]) :
       ~JoinsOnTarget(join_key, Label(BaseNode), TargetName)
  /\ LET node_id == nodes[Len(nodes)]
         right_table == TableColumns(node_id)
     IN  /\ left_table' = (left_table \cup right_table) \ {KeyColumn(node_id)}
         /\ feature_count' = feature_count + Cardinality(right_table) - 1
  /\ UNCHANGED <<pc, budget_size, all_columns, final_selected_features,
                 pipeline, wrapper>>

\* line 200: the budget of the pass is used up or the list is empty.
ArdaEndPass ==
  /\ pc = "arda_inner"
  /\ ~InnerRuns(feature_count, budget_size, nodes)
  /\ pc' = "arda_batch"
  /\ UNCHANGED <<budget_join, pipeline, wrapper>>

\* lines 249-286: the columns that are new since the last batch are selected
\* from; wrapper_algo returns some of the feature columns of the batch.
ArdaBatch ==
  /\ pc = "arda_batch"
  /\ LET columns == left_table \ all_columns
     IN  IF \/ Cardinality(columns) = 0
            \/ Cardinality(columns) = 1 /\ Target \in columns
           THEN UNCHANGED <<all_columns, final_selected_features>>
           ELSE IF Cardinality(columns) = 2 /\ Target \in columns
             THEN /\ final_selected_features' =
                       final_selected_features \o AsList(columns \ {Target})
                  /\ UNCHANGED all_columns
             ELSE /\ all_columns' = (all_columns \cup columns) \ {Target}
                  /\ \E fs_X \in SUBSET (columns \ {Target}) :
                       final_selected_features' =
                         final_selected_features \o AsList(fs_X)
  /\ pc' = "arda_outer"
  /\ UNCHANGED <<nodes, feature_count, budget_size, left_table, pops,
                 pass_pops, pipeline, wrapper>>

ArdaNext ==
  \/ ArdaBeginPass
  \/ ArdaReturn
  \/ ArdaSkipNode
  \/ ArdaJoinNode
  \/ ArdaEndPass
  \/ ArdaBatch

\* select_arda_features_budget_join on a base table with any list of adjacent
\* nodes; the function runs on until it returns.
ArdaSpec == InitArda /\ [][ArdaNext]_vars /\ WF_vars(ArdaNext)

\* ----------------------------------------------------- arda.wrapper_algo
\* The thresholds, in tenths; T is a list of different thresholds.
Taus == {0, 5, 9}

\* estimator.score: the accuracy of a classifier, or the R2 of a regressor,
\* which may be negative.
Accuracies == (0 - 1)..MaxAccuracy

\* sorted(T)
RECURSIVE Sorted(_)
Sorted(list) ==
  IF list = << >> THEN << >>
  ELSE LET least == CHOOSE j \in DOMAIN list :
                      \A m \in DOMAIN list :
                        list[j] < list[m] \/ (list[j] = list[m] /\ j <= m)
       IN  <<list[least]>>
             \o Sorted(SubSeq(list, 1, least - 1)
                         \o SubSeq(list, least + 1, Len(list)))

\* gen_features: math.ceil(eta * d) columns with eta = 0.2
Generated(d) == (d + 4) \div 5

\* lines 87-88: the generated columns come after the d real ones
Mask(d) == [c \in 1..(d + Generated(d)) |-> c > d]

\* feature_importance_scores.argsort(): the positions by ascending score;
\* equal scores come in any order.
Argsorts(scores) ==
  {p \in [DOMAIN scores -> DOMAIN scores] :
     /\ \A a, b \in DOMAIN scores : a # b => p[a] # p[b]
     /\ \A a \in 1..(Len(scores) - 1) : scores[p[a]] <= scores[p[a + 1]]}

\* The order argsort gives.
Ascending(order) == order

\* [::-1]
Descending(order) == [j \in DOMAIN order |-> order[Len(order) + 1 - j]]

\* _bin_count_ranking, lines 49-60, on indices = argsort()[::-1]: the loop goes
\* through the ranking and adds 1 for each column until it meets a generated
\* one.
RECURSIVE CountRanking(_, _, _, _)
CountRanking(order, mask, at, zeros) ==
  IF at > Len(order) \/ mask[order[at]] THEN zeros
  ELSE CountRanking(order, mask, at + 1,
                    [zeros EXCEPT ![order[at]] = @ + 1])

bin_count_ranking(order, mask, bin_size) ==
  CountRanking(order, mask, 1, [c \in 1..bin_size |-> 0])

\* line 96: np.arange(d)[counts / k > tau], with tau in tenths
Selected(d, totals, k, threshold) ==
  {c \in 1..d : totals[c] * 10 > threshold * k}

\* An accuracy that is not above the last one.
NotBetter(accuracy, last) == accuracy <= last

\* line 139: if accuracy < last_accuracy
Worse(accuracy, last) == accuracy < last

\* wrapper_algo(normalised_matrix, y, T) on a matrix of dim columns: lines
\* 113-122.
InitWrapper ==
  /\ NoPipeline
  /\ pc = "wrapper_loop"
  /\ nodes = << >>
  /\ feature_count = 0
  /\ budget_size = 0
  /\ left_table = {}
  /\ all_columns = {}
  /\ final_selected_features = << >>
  /\ pops = [n \in Nodes |-> 0]
  /\ pass_pops = 0
  /\ T \in ListsOver(Taus)
  /\ dim \in 1..MaxDim
  /\ position = 1
  /\ last_accuracy = 0
  /\ last_indices = {}
  /\ indices = {}
  /\ tau = 0
  /\ counts = << >>
  /\ round = 0
  /\ feature_importance_scores = << >>
  /\ ranking = << >>
  /\ bins = << >>
  /\ tried = << >>

\* lines 124-127 and 82-89: the next threshold of sorted(T); select_features
\* starts with counts of zero.
WrapperSelect ==
  /\ pc = "wrapper_loop"
  /\ position <= Len(T)
  /\ tau' = Sorted(T)[position]
  /\ counts' = [c \in 1..dim |-> 0]
  /\ round' = 0
  /\ pc' = "select_loop"
  /\ UNCHANGED <<T, position, last_accuracy, last_indices, indices, dim,
                 feature_importance_scores, ranking, bins, tried, budget_join,
                 pipeline>>

\* lines 124 and 144: no threshold is left, last_indices is returned.
WrapperReturn ==
  /\ pc = "wrapper_loop"
  /\ position > Len(T)
  /\ pc' = "wrapper_returned"
  /\ UNCHANGED <<wrapper, budget_join, pipeline>>

\* lines 93-95: the estimator is fitted and the columns ranked in front of all
\* generated columns are counted.
SelectRank ==
  /\ pc = "select_loop"
  /\ round < Repeats
  /\ \E scores \in [1..(dim + Generated(dim)) -> 0..MaxScore] :
     \E order \in Argsorts(scores) :
       /\ feature_importance_scores' = scores
       /\ ranking' = Descending(order)
       /\ bins' = bin_count_ranking(Descending(order), Mask(dim), dim)
       /\ counts' =
            [c \in 1..dim |->
               counts[c]
                 + bin_count_ranking(Descending(order), Mask(dim), dim)[c]]
  /\ round' = round + 1
  /\ UNCHANGED <<pc, T, position, last_accuracy, last_indices, indices, dim,
                 tau, tried, budget_join, pipeline>>

\* lines 96 and 127-131: select_features returns; without a selected column
\* wrapper_algo returns last_indices.
SelectReturn ==
  /\ pc = "select_loop"
  /\ round = Repeats
  /\ indices' = Selected(dim, counts, Repeats, tau)
  /\ IF Selected(dim, counts, Repeats, tau) = {}
       THEN /\ pc' = "wrapper_returned"
            /\ tried' = Append(tried, [t |-> tau, indices |-> {},
                                       accuracy |-> 0])
       ELSE /\ pc' = "wrapper_score"
            /\ UNCHANGED tried
  /\ UNCHANGED <<T, position, last_accuracy, last_indices, dim, tau, counts,
                 round, feature_importance_scores, ranking, bins, budget_join,
                 pipeline>>

\* lines 137-144: the estimator is scored on the selected columns; a lower
\* accuracy than the last one ends the loop, any other one is remembered with
\* its indices.
WrapperScore ==
  /\ pc = "wrapper_score"
  /\ \E accuracy \in Accuracies :
       /\ tried' = Append(tried, [t |-> tau, indices |-> indices,
                                  accuracy |-> accuracy])
       /\ IF Worse(accuracy, last_accuracy)
            THEN /\ pc' = "wrapper_returned"
                 /\ UNCHANGED <<last_accuracy, last_indices, position>>
            ELSE /\ last_accuracy' = accuracy
                 /\ last_indices' = indices
                 /\ position' = position + 1
                 /\ pc' = "wrapper_loop"
  /\ UNCHANGED <<T, indices, dim, tau, counts, round,
                 feature_importance_scores, ranking, bins, budget_join,
                 pipeline>>

WrapperNext ==
  \/ WrapperSelect
  \/ WrapperReturn
  \/ SelectRank
  \/ SelectReturn
  \/ WrapperScore

\* wrapper_algo on any list of thresholds and a matrix of up to MaxDim columns.
WrapperSpec == InitWrapper /\ [][WrapperNext]_vars

\* ------------------------------------------------------------ properties
\* The path names of all frontiers: those of the running call and those of the
\* suspended callers.
AllFrontiers ==
  previous_queue \cup current_queue \cup initial_queue
    \cup UNION {stack[i].previous_queue \cup stack[i].initial_queue :
                  i \in 1..Len(stack)}

\* The frontiers that were handed to a deeper call: the initial_queue of every
\* call but the outermost one.
HandedFrontiers ==
  IF stack = << >> THEN {}
  ELSE {initial_queue} \cup {stack[i].initial_queue : i \in 2..Len(stack)}

\* The watched attempt is the running one.
Running(w) == join_name # NoName /\ w.name = join_name /\ w.steps = attempt.steps

\* C1: on every finite schema graph, cycles included, the traversal started
\* with queue = {base node} eventually returns.
EventuallyReturns == <>(pc = "returned")

\* C2: discovered only grows; a node is expanded at most once and is a join
\* neighbour at most once; the neighbours still to be processed are never in
\* discovered.
VisitedOnce ==
  /\ [](\A n \in Nodes : expansions[n] <= 1 /\ visits[n] <= 1)
  /\ [](todo \cap discovered = {})
  /\ [][discovered \subseteq discovered']_vars

\* The traversal of a triangle returned with every node expanded.
VisitedOnceWitness ==
  /\ pc = "returned"
  /\ \A n \in 1..Related : adj[n] = (1..Related) \ {n}
  /\ \A n \in 1..Related : expansions[n] = 1
  /\ \A n \in (1..Related) \ {BaseNode} : visits[n] = 1

\* C3: a join whose share of non-null values of the right join column is below
\* value_ratio is rejected, and its name is in no frontier of this or of a
\* deeper call.
LowRatioRejected ==
  \A w \in watched :
    w.low_ratio =>
      /\ w.name \notin AllFrontiers
      /\ Running(w) => pc = "quality"

\* A deeper call was handed a frontier after a low-ratio join was attempted.
LowRatioRejectedWitness ==
  /\ \E w \in watched : w.low_ratio
  /\ stack # << >>
  /\ initial_queue # {}

NamesDiffer ==
  /\ \A w \in watched :
       /\ (join_name # NoName /\ w.name = join_name) => w.steps = attempt.steps
       /\ w.name \in DOMAIN steps_of => steps_of[w.name] = w.steps
  /\ (join_name # NoName /\ join_name \in DOMAIN steps_of) =>
       steps_of[join_name] = attempt.steps

\* Two attempts with the same relation on different partial joins are named.
NamesDifferWitness ==
  \E w \in watched :
    /\ join_name # NoName
    /\ w.name # join_name
    /\ Len(w.steps) # Len(attempt.steps)
    /\ w.steps[Len(w.steps)] = attempt.steps[Len(attempt.steps)]

\* The ancestor paths of an accepted path, back to the base table.
RECURSIVE AncestorsOf(_)
AncestorsOf(name) ==
  IF name \in DOMAIN parent_of
    THEN {parent_of[name]} \cup AncestorsOf(parent_of[name])
    ELSE {}

\* C6: the list stored in partial_join_selected_features for an accepted path
\* holds every feature of the list stored for its ancestor path, and so of all
\* of its ancestors back to the base table.
FeaturesInherited ==
  \A name \in DOMAIN parent_of :
    /\ name \in DOMAIN partial_join_selected_features
    /\ \A a \in AncestorsOf(name) :
         /\ a \in DOMAIN partial_join_selected_features
         /\ Range(partial_join_selected_features[a])
              \subseteq Range(partial_join_selected_features[name])

\* A path of two joins was accepted and the base table has a relevant feature.
FeaturesInheritedWitness ==
  /\ base_relevant # << >>
  /\ \E name \in DOMAIN parent_of :
       /\ parent_of[name] \in DOMAIN parent_of
       /\ parent_of[parent_of[name]] = Label(BaseNode)

\* C7: with S2 and S3 both empty the join is rejected; with S2 empty and S3 not,
\* stage 4 gets exactly S3; otherwise stage 4 gets exactly the intersection of
\* S2 and S3.
CombinationRule ==
  /\ [][pc = "combine" =>
          IF non_cond_red_feat = {} /\ joint_rel_feat = {}
            THEN /\ pc' = "for_prop"
                 /\ join_name \notin DOMAIN partial_join_selected_features'
                 /\ current_queue' = current_queue
            ELSE /\ pc' = "stage4"
                 /\ non_cond_red_feat = {} => selected_features' = joint_rel_feat
                 /\ non_cond_red_feat # {} =>
                      selected_features' = non_cond_red_feat \cap joint_rel_feat
                 /\ non_cond_red_feat' = non_cond_red_feat
                 /\ joint_rel_feat' = joint_rel_feat]_vars
  /\ [](pc = "stage4" =>
          /\ non_cond_red_feat = {} => selected_features = joint_rel_feat
          /\ non_cond_red_feat # {} =>
               selected_features = non_cond_red_feat \cap joint_rel_feat)

\* Stage 4 is about to run on an empty intersection of the stages: stage 2 kept a
\* feature, stage 3 none.
CombinationRuleWitness ==
  /\ pc = "stage4"
  /\ non_cond_red_feat # {}
  /\ joint_rel_feat = {}
  /\ selected_features = {}

\* C8: every name handed to a deeper call is the name of a join whose data
\* passed the gate and the cascade, and is a key of join_name_mapping and of
\* partial_join_selected_features.
HandedNamesAccepted ==
  \A frontier \in HandedFrontiers : \A name \in frontier :
    /\ name \in passed
    /\ name \in DOMAIN join_name_mapping
    /\ name \in DOMAIN partial_join_selected_features

\* A deeper call attempts a join on a path of the frontier it was handed.
HandedNamesAcceptedWitness ==
  /\ Len(stack) >= 1
  /\ initial_queue # {}
  /\ pc = "for_prop"

\* C9: without a relevant feature stage 1 rejects the join before stages 2 to 4
\* run, and the join gets no entry in ranked_paths, in join_name_mapping or in a
\* frontier.
NoRelevantRejected ==
  \A w \in watched :
    w.no_relevant =>
      /\ w.name \notin DOMAIN ranked_paths
      /\ w.name \notin DOMAIN join_name_mapping
      /\ w.name \notin AllFrontiers
      /\ ~Running(w)

\* The traversal returned after a join was rejected by stage 1 and another one
\* was accepted.
NoRelevantRejectedWitness ==
  /\ \E w \in watched : w.no_relevant
  /\ pc = "returned"
  /\ join_name_mapping # EmptyMap

\* C10: join_name_mapping is append-only with one entry per successful join:
\* a step keeps every entry with its filename; the step that ends a join which
\* passed the gate and the cascade adds exactly one entry, for a new name; any
\* other step adds none; outside that step the keys are the accepted names.
MappingAppendOnly ==
  /\ [][/\ \A k \in DOMAIN join_name_mapping :
             /\ k \in DOMAIN join_name_mapping'
             /\ join_name_mapping'[k] = join_name_mapping[k]
        /\ IF pc = "rank"
             THEN /\ join_name \in passed
                  /\ join_name \notin DOMAIN join_name_mapping
                  /\ DOMAIN join_name_mapping' =
                       DOMAIN join_name_mapping \cup {join_name}
             ELSE join_name_mapping' = join_name_mapping]_vars
  /\ [](pc # "rank" => DOMAIN join_name_mapping = passed)

\* Two joins were accepted, and a third was rejected by the gate.
MappingAppendOnlyWitness ==
  /\ Cardinality(DOMAIN join_name_mapping) = 2
  /\ \E w \in watched : w.low_ratio
  /\ pc = "returned"

\* C11: ranked_paths gets an entry for a name at most once: step_rank_path is
\* never called with a name that is ranked already, and no entry is overwritten
\* or removed.
RankedOnce ==
  [][/\ \A k \in DOMAIN ranked_paths :
          /\ k \in DOMAIN ranked_paths'
          /\ ranked_paths'[k] = ranked_paths[k]
     /\ pc = "rank" => join_name \notin DOMAIN ranked_paths]_vars

\* Two paths are ranked, one of them the extension of the other.
RankedOnceWitness ==
  \E k \in DOMAIN ranked_paths :
    /\ k \in DOMAIN parent_of
    /\ parent_of[k] \in DOMAIN ranked_paths

\* C12: a join that is refused for the value types of its join columns (the
\* left column is there) does not make the traversal raise: the relation is
\* skipped and the traversal goes on.
RefusedJoinSkipped ==
  [][(/\ pc = "for_prop"
      /\ idx <= Len(join_keys)
      /\ ~SkipRelation(join_keys[idx])
      /\ ~LeftColumnMissing(partial_join, base_node_id)) =>
       pc' # "raised"]_vars

\* C13: a rejection by the gate or by the cascade goes on with the next
\* relation and leaves the relations, the partial join, the partial joins and
\* the neighbours still to come as they are; and every neighbour's iteration
\* starts with all the paths of the initial frontier.
ContinuesAfterRejection ==
  /\ [][(pc \in {"quality", "select", "combine", "stage4"}
           /\ pc' = "for_prop") =>
          /\ idx' = idx + 1
          /\ UNCHANGED <<join_keys, partial_join_name, partial_join, node,
                         previous_queue, todo, queue, initial_queue>>]_vars
  /\ [](node # NoNode => initial_queue \subseteq offered)
  /\ [][(pc = "while_prev" /\ pc' = "for_node") =>
          initial_queue \subseteq previous_queue']_vars

\* A join of a later neighbour is attempted on the base table after the join
\* of an earlier neighbour was rejected.
ContinuesAfterRejectionWitness ==
  /\ \E w \in watched : (w.low_ratio \/ w.no_relevant) /\ ~Running(w)
  /\ pc = "quality"
  /\ partial_join_name = Label(BaseNode)
  /\ join_name_mapping = EmptyMap

\* C14: the cascade is idempotent.  The step that accepts a join is a call of
\* step_feature_selection with some stage 4 outcome nr; a second call with the
\* same arguments and the same stage outcomes, made in the state the first one
\* leaves, returns the same list and stores the same lists.  A call that
\* rejects stores nothing, so a second call meets the same state.
CascadeIdempotent ==
  [][/\ (pc = "stage4" /\ pc' = "rank") =>
          \E nr \in ListsOver(selected_features) :
            LET first == step_feature_selection(
                           partial_join_selected_features, partial_join_name,
                           join_name, relevant_features, non_cond_red_feat,
                           joint_rel_feat, nr)
                again == step_feature_selection(
                           partial_join_selected_features', partial_join_name,
                           join_name, relevant_features, non_cond_red_feat,
                           joint_rel_feat, nr)
            IN  /\ first.returned.accepted
                /\ first.returned.features = current_selected_features'
                /\ first.store = partial_join_selected_features'
                /\ again.returned = first.returned
                /\ again.store = first.store
     /\ (pc \in {"select", "combine", "stage4"} /\ pc' = "for_prop") =>
          partial_join_selected_features' = partial_join_selected_features]_vars

\* A join was accepted on a partial join that has accepted features itself.
CascadeIdempotentWitness ==
  /\ pc = "rank"
  /\ partial_join_name \in DOMAIN partial_join_selected_features
  /\ partial_join_selected_features[partial_join_name] # << >>
  /\ Len(current_selected_features) >
       Len(partial_join_selected_features[partial_join_name])

\* C15: step_data_quality accepts a join if and only if the number of non-null
\* values of the right join column divided by the number of rows is at least
\* value_ratio; a ratio equal to value_ratio is accepted.
GateAtThreshold ==
  [][pc = "quality" =>
       /\ pc' \in {"select", "for_prop"}
       /\ pc' = "select" <=>
            joined_df.count * value_ratio[2] >= value_ratio[1] * joined_df.rows]_vars

\* A join with exactly half of its rows non-null passed the threshold 1/2.
GateAtThresholdWitness ==
  /\ pc = "select"
  /\ value_ratio = <<1, 2>>
  /\ joined_df.count * 2 = joined_df.rows
  /\ joined_df.count > 0

\* The nodes reachable from the nodes of S along the relations asked for.
RECURSIVE ReachableFrom(_)
ReachableFrom(S) ==
  LET more == S \cup UNION {adj[n] : n \in S \cap DOMAIN adj}
  IN  IF more = S THEN S ELSE ReachableFrom(more)

\* C16: when the traversal returns, discovered is the set of the nodes
\* reachable from the base node, and each of them was expanded.
DiscoveredIsReachable ==
  pc = "returned" =>
    /\ discovered = ReachableFrom({BaseNode})
    /\ \A n \in ReachableFrom({BaseNode}) :
         n \in DOMAIN adj /\ expansions[n] = 1

\* The traversal of a chain of three tables returned; the last table is not
\* adjacent to the base table, and one node is not reachable.
DiscoveredIsReachableWitness ==
  /\ pc = "returned"
  /\ adj[BaseNode] = {2}
  /\ adj[2] = {BaseNode, 3}
  /\ discovered = {BaseNode, 2, 3}
  /\ Nodes \ discovered # {}

\* C17: the traversal is breadth first: while a node is expanded in a deeper
\* call, no node of the caller's node frontier is left to expand.
BreadthFirst ==
  (stack # << >> /\ base_node_id # NoNode) => stack[Len(stack)].queue = {}

\* C18: a join with a neighbour of base node b is attempted on a partial join
\* admitted by the test of the label only if b's table is one of the tables of
\* that partial join.
JoinedThroughBase ==
  (/\ pc = "for_prop"
   /\ idx <= Len(join_keys)
   /\ ~SkipRelation(join_keys[idx])) =>
    base_node_id \in partial_join.tables

\* C19: every relation the join resolver returns is tried: the loop over the
\* relations leaves none behind without a join attempt.
EveryRelationTried ==
  [][(pc = "for_prop" /\ idx <= Len(join_keys)) => pc' # "for_prop"]_vars

\* C20: a neighbour for which the join resolver returns no relation leaves the
\* frontier as it was when the neighbour's iteration started.
NoRelationKeepsFrontier ==
  [][(pc = "while_prev" /\ pc' = "for_node" /\ join_keys = << >>) =>
       previous_queue' = offered]_vars

\* C21: the steps of a join attempt come in the order join, quality gate,
\* cascade, ranking, frontier and mapping update: the gate is applied to the
\* result of the join; the cascade starts only after the gate passed; the path
\* is ranked only after the cascade stored and returned a feature list; a name
\* is added to the frontier or to join_name_mapping only by the attempt that
\* ranked it.
StepsInOrder ==
  /\ [][pc' = "quality" =>
          pc = "for_prop" /\ joined_df'.data_of = join_name']_vars
  /\ [][pc' = "select" =>
          /\ pc = "quality"
          /\ joined_df.count * value_ratio[2] >= value_ratio[1] * joined_df.rows
       ]_vars
  /\ [][pc' = "combine" => pc = "select"]_vars
  /\ [][pc' = "stage4" => pc = "combine"]_vars
  /\ [][pc' = "rank" =>
          /\ pc = "stage4"
          /\ join_name \in DOMAIN partial_join_selected_features'
          /\ Len(partial_join_selected_features'[join_name]) > 0]_vars
  /\ [][\A n \in (DOMAIN join_name_mapping' \ DOMAIN join_name_mapping)
                   \cup (current_queue' \ current_queue) :
          /\ pc = "rank"
          /\ n = join_name
          /\ n \in DOMAIN ranked_paths']_vars
  /\ [](DOMAIN join_name_mapping \cup current_queue \subseteq DOMAIN ranked_paths)

\* A join went through all the steps: its path is ranked, in the new frontier
\* and in the mapping, and the next relation is looked at.
StepsInOrderWitness ==
  /\ pc = "for_prop"
  /\ \E n \in current_queue :
       n \in DOMAIN join_name_mapping /\ n \in DOMAIN ranked_paths /\ n \in passed

\* C22: no join attempt, accepted or rejected, writes to a file that
\* join_name_mapping maps a path name to; the files of join_name_mapping are
\* pairwise distinct, and the file of an accepted path keeps holding the data
\* of that path.
FilesNotOverwritten ==
  /\ [][pc' = "quality" =>
          /\ join_filename' \notin Range(join_name_mapping)
          /\ disk' = Put(disk, join_filename', StoredDf(joined_df'))]_vars
  /\ [](\A a, b \in DOMAIN join_name_mapping :
          a # b => join_name_mapping[a] # join_name_mapping[b])
  /\ [](\A a \in DOMAIN join_name_mapping :
          /\ join_name_mapping[a] \in DOMAIN disk
          /\ disk[join_name_mapping[a]].data_of = a)

\* Two paths were accepted, and a join attempted after them wrote its file.
FilesNotOverwrittenWitness ==
  /\ Cardinality(DOMAIN join_name_mapping) >= 2
  /\ pc = "quality"
  /\ join_filename > Cardinality(DOMAIN join_name_mapping)

\* C23: the right-hand table passed to a join has exactly one row for every
\* distinct non-null value of the right join column and no other row; it is
\* drawn with the seed 42 from the neighbour's table as read from storage,
\* whatever was sampled for the relations before, so that no value of the
\* right join column occurs twice (the join is one-to-one or many-to-one).
SampledFromStored ==
  pc = "quality" =>
    LET k == ColumnIndex(join_keys[idx].join_prop.to_column)
        stored == TableOf(node).content
        rows == sampled_right_df.content
    IN  /\ rows \subseteq stored
        /\ \A r \in rows : Value(r, k) # Null
        /\ \A v \in {Value(r, k) : r \in stored} \ {Null} :
             Cardinality({r \in rows : Value(r, k) = v}) = 1
        /\ rows = GroupSample(stored, k, 42)
        /\ right_df = TableOf(node)

\* The second relation of a neighbour was joined after the first: the first
\* sample left out a row with a repeated value and the row with a null, and
\* the second sample has a row the first one left out.
SampledFromStoredWitness ==
  /\ pc = "quality"
  /\ idx = 2
  /\ ~SkipRelation(join_keys[1])
  /\ GroupSample(TableOf(node).content, 1, Seed) = {1}
  /\ sampled_right_df.content = {1, 2}

\* C24: the list stored for a new path is the ancestor's list with the stage 4
\* survivors appended: the ancestor's list is a prefix of it and the new
\* features follow.
AncestorIsPrefix ==
  pc = "rank" =>
    LET ancestor == partial_join_selected_features[partial_join_name]
        stored == partial_join_selected_features[join_name]
    IN  /\ Len(ancestor) < Len(stored)
        /\ SubSeq(stored, 1, Len(ancestor)) = ancestor

\* C25: a join that step_feature_selection rejects (no relevant feature, the
\* combination rule rejects, nothing survives stage 4) gets no entry in
\* partial_join_selected_features, and nothing is added to ranked_paths, to
\* join_name_mapping or to a frontier: a step out of the cascade either
\* rejects and leaves all of them as the attempt found them, or accepts a
\* join that has a feature surviving stage 4.
RejectionLeavesNothing ==
  /\ [][(pc \in {"select", "combine", "stage4"} /\ pc' = "for_prop") =>
          /\ join_name \notin DOMAIN partial_join_selected_features'
          /\ partial_join_selected_features' =
               attempt.partial_join_selected_features
          /\ ranked_paths' = attempt.ranked_paths
          /\ join_name_mapping' = attempt.join_name_mapping
          /\ current_queue' = attempt.current_queue
          /\ previous_queue' = attempt.previous_queue
          /\ initial_queue' = attempt.initial_queue
          /\ join_name \notin AllFrontiers'
          /\ idx' = idx + 1]_vars
  /\ [][(pc = "combine" /\ CombineRejects(non_cond_red_feat, joint_rel_feat)) =>
          pc' = "for_prop"]_vars
  /\ [][(pc = "stage4" /\ pc' = "rank") =>
          /\ relevant_features # {}
          /\ Len(partial_join_selected_features'[join_name]) >
               Len(partial_join_selected_features[partial_join_name])]_vars

\* A join that passed the gate and had a relevant feature was rejected by the
\* cascade after another join was accepted; the traversal is at the next
\* relation.
RejectionLeavesNothingWitness ==
  /\ pc = "for_prop"
  /\ ranked_paths # EmptyMap
  /\ \E w \in watched :
       /\ ~w.low_ratio
       /\ ~w.no_relevant
       /\ ~Running(w)
       /\ w.name \notin DOMAIN partial_join_selected_features

\* C26: after a join was executed, the right join column is not among the
\* columns of the joined dataframe.
RightKeyDropped ==
  pc \in {"quality", "select", "combine", "stage4", "rank"} =>
    RightColumn(join_keys[idx]) \notin joined_df.join_columns

\* C27: in both functions of trial_error.py a join rejected by the value-ratio
\* gate adds no entry to join_name_mapping: when the gate rejects the join, its
\* name is no key of the mapping.
GateRejectionAddsNoName ==
  [][(pc \in {"bfs_gate", "dfs_gate"} /\ BelowRatio(joined_df, value_ratio)) =>
       join_name \notin DOMAIN join_name_mapping']_vars

\* C28: in dfs_traverse_join_pipeline the join recorded under the name composed
\* from current_join_path and the relation is computed from the dataframe of
\* that current_join_path, so that the data recorded under a name are those of
\* the join sequence the name stands for.
JoinedFromItsPath ==
  pc = "dfs_gate" =>
    /\ left_df.data_of = current_join_path
    /\ joined_df.data_of = join_name

\* C29: dfs_traverse_join_pipeline returns a set of path names, never None,
\* whatever the join tree.
DfsReturnsSet == pc = "returned" => result # NonePaths

\* C30: the set of path names a traversal ranks (the keys of ranked_paths and
\* of join_name_mapping) does not depend on the order in which queue,
\* neighbours and previous_queue are popped and iterated: a second traversal
\* of the same graph and data returns with the path names of the first one.
SameRankedPaths ==
  (pc = "returned" /\ first_result # NoResult) =>
    /\ DOMAIN ranked_paths = first_result
    /\ DOMAIN join_name_mapping = first_result

\* C31: between two join attempts and when the traversal returns, ranked_paths
\* and join_name_mapping have the same keys, and each of these keys is a key
\* of partial_join_selected_features.
BetweenAttempts ==
  pc \in {"while_queue", "for_node", "while_prev", "for_prop", "returned"}

KeySetsAgree ==
  BetweenAttempts =>
    /\ DOMAIN ranked_paths = DOMAIN join_name_mapping
    /\ DOMAIN ranked_paths \subseteq DOMAIN partial_join_selected_features

\* Two paths are ranked and the traversal has returned.
KeySetsAgreeWitness ==
  /\ pc = "returned"
  /\ Cardinality(DOMAIN ranked_paths) >= 2

\* C32: step_feature_selection never changes the list stored for the ancestor
\* path, whether it accepts or rejects the join, and the paths accepted from
\* the same ancestor have all seen the ancestor's list as it is stored: each of
\* their lists ends with it.
EndsWith(list, tail) ==
  /\ Len(tail) <= Len(list)
  /\ SubSeq(list, Len(list) - Len(tail) + 1, Len(list)) = tail

AncestorListKept ==
  /\ [][(pc \in {"select", "combine", "stage4"} /\ pc' # "raised") =>
          /\ partial_join_name \in DOMAIN partial_join_selected_features'
          /\ partial_join_selected_features'[partial_join_name] =
               partial_join_selected_features[partial_join_name]]_vars
  /\ [](\A name \in DOMAIN parent_of :
          /\ parent_of[name] \in DOMAIN partial_join_selected_features
          /\ EndsWith(partial_join_selected_features[name],
                      partial_join_selected_features[parent_of[name]]))

\* A second path is accepted from an ancestor whose list is not empty.
AncestorListKeptWitness ==
  /\ pc = "rank"
  /\ partial_join_selected_features[partial_join_name] # << >>
  /\ parent_of[join_name] = partial_join_name
  /\ \E s \in DOMAIN parent_of :
       /\ s # join_name
       /\ parent_of[s] = partial_join_name

\* C33: the list of an accepted join starts with at least one feature that is
\* a column of the right table and passed stage 1, followed by the ancestor's
\* list; when the sets of stages 2 and 3 are both non-empty and disjoint,
\* stage 4 gets the empty set and the join is rejected: it gets no list and no
\* rank.
NewRightFeature ==
  /\ [][(pc = "stage4" /\ pc' = "rank") =>
          LET list == partial_join_selected_features'[join_name]
              ancestor == partial_join_selected_features[partial_join_name]
              fresh == SubSeq(list, 1, Len(list) - Len(ancestor))
          IN  /\ list = current_selected_features'
              /\ EndsWith(list, ancestor)
              /\ \E f \in Range(fresh) :
                   /\ f \in RightFeatures(right_df, Target)
                   /\ f \in relevant_features]_vars
  /\ [][(/\ pc = "combine"
         /\ non_cond_red_feat # {}
         /\ joint_rel_feat # {}
         /\ non_cond_red_feat \cap joint_rel_feat = {}) =>
          /\ pc' = "stage4"
          /\ selected_features' = {}]_vars
  /\ [][(pc = "stage4" /\ selected_features = {}) =>
          /\ pc' = "for_prop"
          /\ join_name \notin DOMAIN partial_join_selected_features'
          /\ join_name \notin DOMAIN ranked_paths'
          /\ join_name \notin current_queue']_vars

\* Stages 2 and 3 kept different features of a join, after another join was
\* accepted on a base table that has a relevant feature.
NewRightFeatureWitness ==
  /\ pc = "stage4"
  /\ non_cond_red_feat # {}
  /\ joint_rel_feat # {}
  /\ selected_features = {}
  /\ \E name \in DOMAIN ranked_paths :
       /\ name \in DOMAIN parent_of
       /\ partial_join_selected_features[parent_of[name]] # << >>

\* C34: select_arda_features_budget_join terminates: it returns; a node leaves
\* the list only by being popped and none is popped twice, so that every
\* adjacent node has been popped exactly once, joined or skipped, when the
\* list is empty; each pass of the outer loop pops at least one node; and the
\* function returns only with the empty list.
Popped == {n \in Nodes : pops[n] >= 1}

BudgetJoinTerminates ==
  /\ <>(pc = "arda_returned")
  /\ [](pc = "arda_returned" => nodes = << >>)
  /\ [](\A n \in Nodes : pops[n] + (IF n \in Range(nodes) THEN 1 ELSE 0) <= 1)
  /\ [][Popped' \cup Range(nodes') = Popped \cup Range(nodes)]_vars
  /\ [](pc = "arda_batch" => pass_pops >= 1)
  /\ [][(pc = "arda_outer" /\ pc' = "arda_returned") => nodes = << >>]_vars

\* The function returned after all the other nodes were popped, one of them
\* skipped and one joined, with a budget that one pass uses up.
BudgetJoinTerminatesWitness ==
  /\ pc = "arda_returned"
  /\ Popped = Nodes \ {BaseNode}
  /\ budget_size < Rows
  /\ \E n \in Popped : Features(n) \cap left_table = {}
  /\ \E n \in Popped : Features(n) \subseteq left_table

\* C35: wrapper_algo tries the thresholds of T in ascending order; it goes on
\* only after a threshold whose selection is not empty and whose accuracy is
\* not lower than the one accepted before (0 at the start), and it returns the
\* indices of the last threshold accepted in this way: the previously accepted
\* indices when it stops at a threshold that is not accepted, the empty list
\* if that is the first one.
AcceptedAt(j) ==
  /\ tried[j].indices # {}
  /\ tried[j].accuracy >= (IF j = 1 THEN 0 ELSE tried[j - 1].accuracy)

LastAcceptedReturned ==
  /\ \A j \in 1..(Len(T) - 1) : Sorted(T)[j] <= Sorted(T)[j + 1]
  /\ \A x \in Taus :
       Cardinality({j \in DOMAIN T : T[j] = x})
         = Cardinality({j \in DOMAIN T : Sorted(T)[j] = x})
  /\ Len(tried) <= Len(T)
  /\ \A j \in DOMAIN tried : tried[j].t = Sorted(T)[j]
  /\ \A j \in 1..(Len(tried) - 1) : AcceptedAt(j)
  /\ pc = "wrapper_returned" =>
       LET n == Len(tried)
       IN  /\ n < Len(T) => (n >= 1 /\ ~AcceptedAt(n))
           /\ last_indices =
                IF n = 0 THEN {}
                ELSE IF AcceptedAt(n) THEN tried[n].indices
                ELSE IF n = 1 THEN {} ELSE tried[n - 1].indices

\* wrapper_algo got its thresholds out of order and returned at the second
\* one, whose accuracy was lower, with the indices of the first.
LastAcceptedReturnedWitness ==
  /\ pc = "wrapper_returned"
  /\ T # Sorted(T)
  /\ Len(tried) = 2
  /\ Len(T) > 2
  /\ tried[2].indices # {}
  /\ tried[2].indices # tried[1].indices
  /\ tried[2].accuracy < tried[1].accuracy
  /\ last_indices = tried[1].indices

\* C36: _bin_count_ranking returns a vector of bin_size entries 0 or 1, one for
\* each real feature and none for a generated one; the entry of a real feature
\* is 1 if and only if the feature comes before every generated feature in the
\* ranking, which lists the columns by descending importance score.
PlaceOf(order, c) == CHOOSE j \in DOMAIN order : order[j] = c

BinsMarkFront ==
  bins # << >> =>
    /\ DOMAIN bins = 1..dim
    /\ DOMAIN ranking = DOMAIN feature_importance_scores
    /\ \A c \in DOMAIN feature_importance_scores :
         \E j \in DOMAIN ranking : ranking[j] = c
    /\ \A j \in 1..(Len(ranking) - 1) :
         feature_importance_scores[ranking[j]]
           >= feature_importance_scores[ranking[j + 1]]
    /\ \A c \in 1..dim :
         /\ bins[c] \in {0, 1}
         /\ bins[c] = 1 <=>
              \A g \in (dim + 1)..Len(ranking) :
                PlaceOf(ranking, c) < PlaceOf(ranking, g)

\* A ranking put one real feature in front of the generated feature and the
\* other one behind it.
BinsMarkFrontWitness ==
  /\ pc = "select_loop"
  /\ round >= 1
  /\ \E c \in DOMAIN bins : bins[c] = 1
  /\ \E c \in DOMAIN bins : bins[c] = 0

====
